---- MODULE Spec2Model ----
(***************************************************************************)
(* The academics catalogue of KillPhilosophy: DatabaseManager              *)
(* (database-manager-compact.js) and the enrichment entry point of         *)
(* DeepSearchAPI that writes into it.                                      *)
(*                                                                         *)
(* A JavaScript string is a sequence of one-character strings, so that     *)
(* toLowerCase, the two regular expressions of _normalizeNameKey and       *)
(* String.includes are computed and not assumed.  A JavaScript object with *)
(* string keys is a sequence of [key, rec] entries in insertion order,     *)
(* which is the order Object.values and JSON.stringify follow.             *)
(***************************************************************************)
EXTENDS Integers, Sequences, FiniteSets, TLC

\* ------------------------------------------------------------------ bounds

\* Calls from the page explored in one behaviour of Spec.
MaxOps == 1

\* Calls explored in one behaviour of SpecMerge, which starts from the
\* cleared store.
MaxMergeOps == 2

\* Imports explored in one behaviour of SpecQuery; its reads are not
\* counted, they change nothing.
MaxQueryOps == 1

\* --------------------------------------------------------------- strings

UpperCase == <<"A","B","C","D","E","F","G","H","I","J","K","L","M",
               "N","O","P","Q","R","S","T","U","V","W","X","Y","Z">>
LowerCase == <<"a","b","c","d","e","f","g","h","i","j","k","l","m",
               "n","o","p","q","r","s","t","u","v","w","x","y","z">>
Digits == {"0","1","2","3","4","5","6","7","8","9"}

\* The value of a property that is missing from an object.  It is a
\* sequence no string equals, because its element is not one character.
Undefined == <<"undefined">>

Range(s) == {s[i] : i \in 1..Len(s)}

toLowerCaseChar(c) ==
    IF \E i \in 1..26 : UpperCase[i] = c
    THEN LowerCase[CHOOSE i \in 1..26 : UpperCase[i] = c]
    ELSE c

toLowerCase(s) == [i \in 1..Len(s) |-> toLowerCaseChar(s[i])]

\* \s of a JavaScript regular expression, as far as the alphabet goes.
IsSpace(c) == c \in {" ", "\t", "\n"}

\* \w of a JavaScript regular expression: [A-Za-z0-9_].
IsWordChar(c) == c \in Range(UpperCase) \cup Range(LowerCase) \cup Digits \cup {"_"}

RECURSIVE DropSpaces(_)
DropSpaces(s) ==
    IF s # <<>> /\ IsSpace(Head(s)) THEN DropSpaces(Tail(s)) ELSE s

\* s.replace(/\s+/g, '-')
RECURSIVE ReplaceSpaceRuns(_)
ReplaceSpaceRuns(s) ==
    IF s = <<>> THEN <<>>
    ELSE IF IsSpace(Head(s)) THEN <<"-">> \o ReplaceSpaceRuns(DropSpaces(Tail(s)))
    ELSE <<Head(s)>> \o ReplaceSpaceRuns(Tail(s))

\* s.replace(/[^\w-]/g, '')
StripNonWord(s) == SelectSeq(s, LAMBDA c : IsWordChar(c) \/ c = "-")

\* A check for a missing name that lets the empty string through.
TruthyIfDefined(s) == s # Undefined

\* JavaScript truthiness of a string-valued property.
Truthy(s) == s # Undefined /\ s # <<>>

_normalizeNameKey(name) ==
    IF ~Truthy(name) THEN <<>>
    ELSE StripNonWord(ReplaceSpaceRuns(toLowerCase(name)))

\* a.includes(b) on strings
includesStr(a, b) ==
    \E i \in 0..Len(a) :
        /\ i + Len(b) <= Len(a)
        /\ \A j \in 1..Len(b) : a[i + j] = b[j]

\* array.includes(x)
includes(arr, x) == \E i \in 1..Len(arr) : arr[i] = x

\* ------------------------------------------------------- ordered objects

HasKey(obj, k) == \E i \in 1..Len(obj) : obj[i].key = k
IndexOfKey(obj, k) == CHOOSE i \in 1..Len(obj) : obj[i].key = k
Get(obj, k) == obj[IndexOfKey(obj, k)].rec

\* An assignment that starts a new object with the one key.
PutAlone(obj, k, r) == <<[key |-> k, rec |-> r]>>

\* obj[k] = r : in place for a key the object has, appended for a new one.
Put(obj, k, r) ==
    IF HasKey(obj, k)
    THEN [obj EXCEPT ![IndexOfKey(obj, k)] = [key |-> k, rec |-> r]]
    ELSE Append(obj, [key |-> k, rec |-> r])
Keys(obj) == {obj[i].key : i \in 1..Len(obj)}

Min(a, b) == IF a <= b THEN a ELSE b

\* arr.slice(0, n)
slice(arr, n) == SubSeq(arr, 1, Min(n, Len(arr)))

\* ------------------------------------------------------------ JSON text

\* A string handed to JSON.parse: either the serialisation of a value or
\* text that JSON.parse rejects.
JSONstringify(v) == [valid |-> TRUE, value |-> v]
Garbage == [valid |-> FALSE, value |-> <<>>]
JSONparseThrows(text) == ~text.valid
JSONparse(text) == text.value

\* The JSON text 7: it parses, to a value that is neither an object nor an
\* array.  The program never writes it; another script of the origin can.
NumberText == [valid |-> TRUE, value |-> 7, number |-> TRUE]

\* typeof JSON.parse(text) === 'number'
typeofNumber(text) == "number" \in DOMAIN text

\* A localStorage slot: getItem gives null for a slot never set.
Null == [present |-> FALSE, text |-> Garbage]
Item(text) == [present |-> TRUE, text |-> text]

\* A JSON string of one character where a catalogue is expected.  As
\* this.academics it has the one key "0" (Object.keys) and the one value
\* "x" (Object.values), every property of which is undefined; the field
\* primitive tells it from the object {"0": "x"}.
StringData ==
    <<[key |-> <<"0">>,
       rec |-> [name |-> Undefined, bio |-> <<>>, taxonomies |-> [c \in {} |-> <<>>],
                papers |-> <<>>, events |-> <<>>, connections |-> <<>>],
       primitive |-> TRUE]>>

\* value && typeof value === 'object', for the values a catalogue takes.
typeofObject(value) == value # StringData

\* { ...value }: the own enumerable properties, in a new object.
spread(value) ==
    IF value = StringData
    THEN <<[key |-> StringData[1].key, rec |-> StringData[1].rec]>>
    ELSE value

\* ------------------------------------------------------------ constants

\* saveToLocalStorage keeps the 50 most recent tiles in the slot.
PersistedTiles == 50
\* The quota fallback keeps the 20 most recent tiles in memory.
TrimmedTiles == 20
\* addNoveltyTile keeps 100 tiles in memory.
MemoryTiles == 100

\* ---------------------------------------------------------------- tiles

\* [...tiles].sort((a, b) => new Date(b.date) - new Date(a.date)):
\* newest first, and Array.prototype.sort is stable.  The place of a tile
\* is one more than the number of tiles that come before it: those with a
\* later date and those with the same date that stand before it.
sortByDateDesc(tiles) ==
    LET n == Len(tiles)
        place == [i \in 1..n |->
                    1 + Cardinality({j \in 1..n :
                            \/ tiles[j].date > tiles[i].date
                            \/ tiles[j].date = tiles[i].date /\ j < i})]
    IN  [p \in 1..n |-> tiles[CHOOSE i \in 1..n : place[i] = p]]

\* ------------------------------------------------------------- the store

\* The fields of a DatabaseManager together with the localStorage of the
\* page, as one value the methods below take and give back.
\*   academics, noveltyTiles, favorites, pendingSubmissions,
\*   taxonomyCategories : the fields of the object
\*   localStorageSupported : the field set by the constructor
\*   ls : the six localStorage slots the class uses

\* What localStorage.setItem does when the origin is short of space is the
\* browser's choice.  A quota mode names the writes of one
\* saveToLocalStorage that throw QuotaExceededError:
\*   ok            none
\*   acadThenOk    the academics write of line 283; the fallback succeeds
\*   acadThenFail  the academics write of line 283 and the fallback writes
\*   tilesThenFail the tiles write of line 288 and the fallback writes
QuotaModes == {"ok", "acadThenOk", "acadThenFail", "tilesThenFail"}

\* One more mode for the sessions that look at the backup slot: the write
\* of the backup copy (line 227), which adds a second copy of the catalogue
\* to the origin, throws, and the writes that replace a value do not.
SaveQuotaModes == QuotaModes \cup {"backupFails"}

\* _createBackup: the write is inside its own try, so a throw is swallowed.
_createBackup(S, q) ==
    IF ~S.localStorageSupported THEN S
    ELSE IF S.ls.academics.present /\ q \notin {"acadThenFail", "backupFails"}
         THEN [S EXCEPT !.ls.backup = S.ls.academics]
         ELSE S

\* A restoration that rewrites the slot and leaves this.academics alone.
_restoreFromBackupSlotOnly(S) ==
    IF ~S.localStorageSupported THEN S
    ELSE IF ~S.ls.backup.present THEN S
    ELSE IF JSONparseThrows(S.ls.backup.text) THEN S
    ELSE [S EXCEPT !.ls.academics = S.ls.backup]

\* _restoreFromBackup
_restoreFromBackup(S) ==
    IF ~S.localStorageSupported THEN S
    ELSE IF ~S.ls.backup.present THEN S
    ELSE IF JSONparseThrows(S.ls.backup.text) THEN S
    ELSE IF ~typeofObject(JSONparse(S.ls.backup.text)) THEN S
    ELSE [S EXCEPT !.academics = JSONparse(S.ls.backup.text),
                   !.ls.academics = S.ls.backup]

\* A catch block that retries the academics write and trims nothing.
QuotaFallbackNoTrim(S, q) ==
    IF q = "acadThenOk"
    THEN [S |-> [S EXCEPT !.ls.academics = Item(JSONstringify(S.academics))],
          ret |-> TRUE]
    ELSE [S |-> S, ret |-> FALSE]

\* The catch block of saveToLocalStorage for a QuotaExceededError.
QuotaFallback(S, q) ==
    LET trimmed == IF Len(S.noveltyTiles) > TrimmedTiles
                   THEN slice(sortByDateDesc(S.noveltyTiles), TrimmedTiles)
                   ELSE S.noveltyTiles
        S1 == [S EXCEPT !.noveltyTiles = trimmed]
    IN IF q = "acadThenOk"
       THEN [S |-> [S1 EXCEPT
                      !.ls.noveltyTiles =
                          IF Len(S.noveltyTiles) > TrimmedTiles
                          THEN Item(JSONstringify(trimmed))
                          ELSE S.ls.noveltyTiles,
                      !.ls.academics = Item(JSONstringify(S.academics))],
             ret |-> TRUE]
       ELSE [S |-> S1, ret |-> FALSE]

\* saveToLocalStorage: the store after the call and the value returned.
\* The read-back of lines 296-309 parses what line 283 wrote, the
\* serialisation of this.academics: it fails when that is not an object.
saveToLocalStorage(S, q) ==
    IF ~S.localStorageSupported THEN [S |-> S, ret |-> FALSE]
    ELSE
    LET S1 == _createBackup(S, q)
        recentTiles == slice(sortByDateDesc(S.noveltyTiles), PersistedTiles)
    IN  IF q \in {"acadThenOk", "acadThenFail"} THEN QuotaFallback(S1, q)
        ELSE
        LET S2 == [S1 EXCEPT !.ls.academics = Item(JSONstringify(S.academics))]
        IN  IF q = "tilesThenFail" THEN QuotaFallback(S2, q)
            ELSE
            LET S3 == [S2 EXCEPT
                         !.ls.noveltyTiles = Item(JSONstringify(recentTiles)),
                         !.ls.favorites = Item(JSONstringify(S.favorites)),
                         !.ls.pendingSubmissions =
                             Item(JSONstringify(S.pendingSubmissions))]
            IN  IF ~typeofObject(JSONparse(S3.ls.academics.text))
                THEN [S |-> _restoreFromBackup(S3), ret |-> FALSE]
                ELSE [S |-> S3, ret |-> TRUE]

\* -------------------------------------------------------- novelty tiles

\* A novelty tile {title, content, date, type}.  The title is the fixed
\* text (kind) and the names put into it; content repeats the same names.
Tile(kind, subject, other, type, date) ==
    [kind |-> kind, subject |-> subject, other |-> other,
     type |-> type, date |-> date]

\* date 0 stands for a tile given without a date.
NoDate == 0

\* addNoveltyTile
addNoveltyTile(S, tile, now, q) ==
    IF tile.kind = "" THEN [S |-> S, ret |-> FALSE]
    ELSE
    LET dated == IF tile.date = NoDate THEN [tile EXCEPT !.date = now] ELSE tile
        unshifted == <<dated>> \o S.noveltyTiles
        kept == IF Len(unshifted) > MemoryTiles
                THEN slice(unshifted, MemoryTiles) ELSE unshifted
        saved == saveToLocalStorage([S EXCEPT !.noveltyTiles = kept], q)
    IN  [S |-> saved.S, ret |-> TRUE]

\* --------------------------------------------------------- merge engine

\* existing.papers.some(p => p.title.toLowerCase() === paper.title.toLowerCase()
\*                           && (!p.year || !paper.year || p.year === paper.year))
\* "throw" is the TypeError of toLowerCase on a title that is missing.
\* First the comparison without toLowerCase, then the comparison of the code.
RECURSIVE ItemExistsCaseSensitive(_, _)
ItemExistsCaseSensitive(items, item) ==
    IF items = <<>> THEN "false"
    ELSE LET p == Head(items)
         IN  IF p.title = Undefined \/ item.title = Undefined THEN "throw"
             ELSE IF /\ p.title = item.title
                     /\ (p.year = 0 \/ item.year = 0 \/ p.year = item.year)
                  THEN "true"
                  ELSE ItemExistsCaseSensitive(Tail(items), item)

RECURSIVE ItemExists(_, _)
ItemExists(items, item) ==
    IF items = <<>> THEN "false"
    ELSE LET p == Head(items)
         IN  IF p.title = Undefined \/ item.title = Undefined THEN "throw"
             ELSE IF /\ toLowerCase(p.title) = toLowerCase(item.title)
                     /\ (p.year = 0 \/ item.year = 0 \/ p.year = item.year)
                  THEN "true"
                  ELSE ItemExists(Tail(items), item)

\* A forEach that pushes every item of the candidate.
MergeItemsAppendAll(existing, candidate) ==
    [items |-> existing \o candidate, thrown |-> FALSE]

\* The forEach over the candidate's papers (or events).
RECURSIVE MergeItems(_, _)
MergeItems(existing, candidate) ==
    IF candidate = <<>> THEN [items |-> existing, thrown |-> FALSE]
    ELSE LET e == ItemExists(existing, Head(candidate))
         IN  IF e = "throw" THEN [items |-> existing, thrown |-> TRUE]
             ELSE MergeItems(IF e = "false"
                             THEN Append(existing, Head(candidate))
                             ELSE existing,
                             Tail(candidate))

\* A forEach that pushes every value of the candidate.
MergeValuesAppendAll(existing, candidate) == existing \o candidate

\* values.forEach(v => { if (!existing.includes(v)) existing.push(v) })
RECURSIVE MergeValues(_, _)
MergeValues(existing, candidate) ==
    IF candidate = <<>> THEN existing
    ELSE MergeValues(IF includes(existing, Head(candidate))
                     THEN existing
                     ELSE Append(existing, Head(candidate)),
                     Tail(candidate))

\* Lines 482-500: a taxonomy object is a function from the categories it
\* has to their value lists.
MergeTaxonomies(existing, candidate) ==
    [c \in DOMAIN existing \cup DOMAIN candidate |->
        IF c \in DOMAIN candidate
        THEN MergeValues(IF c \in DOMAIN existing THEN existing[c] ELSE <<>>,
                         candidate[c])
        ELSE existing[c]]

\* A merge that takes the candidate's papers in place of the record's.
MergeRecordOverwrite(existing, academic) ==
    [rec |-> [existing EXCEPT !.papers = academic.papers], thrown |-> FALSE]

\* Lines 474-551: the record after the merge, in the order of the code, so
\* that a throw keeps what the earlier steps did.
MergeRecord(existing, academic) ==
    LET r1 == IF Truthy(academic.bio) /\ academic.bio # existing.bio
              THEN [existing EXCEPT !.bio = academic.bio] ELSE existing
        r2 == [r1 EXCEPT !.taxonomies =
                   MergeTaxonomies(r1.taxonomies, academic.taxonomies)]
        mp == MergeItems(r2.papers, academic.papers)
        r3 == [r2 EXCEPT !.papers = mp.items]
        me == MergeItems(r3.events, academic.events)
        r4 == [r3 EXCEPT !.events = me.items]
        r5 == [r4 EXCEPT !.connections =
                   MergeValues(r4.connections, academic.connections)]
    IN  IF mp.thrown THEN [rec |-> r3, thrown |-> TRUE]
        ELSE IF me.thrown THEN [rec |-> r4, thrown |-> TRUE]
        ELSE [rec |-> r5, thrown |-> FALSE]

\* addOrUpdateAcademic.  The value of saveToLocalStorage is not looked at.
\* The code of a class body is strict: the assignment of line 554 to a
\* property of a string throws a TypeError, which the catch turns to false.
addOrUpdateAcademic(S, academic, now, q) ==
    IF ~Truthy(academic.name) THEN [S |-> S, ret |-> FALSE]
    ELSE
    LET key == _normalizeNameKey(academic.name)
    IN  IF HasKey(S.academics, key)
        THEN LET m == MergeRecord(Get(S.academics, key), academic)
                 S1 == [S EXCEPT !.academics = Put(S.academics, key, m.rec)]
             IN  IF m.thrown THEN [S |-> S1, ret |-> FALSE]
                 ELSE [S |-> saveToLocalStorage(S1, q).S, ret |-> TRUE]
        ELSE IF ~typeofObject(S.academics) THEN [S |-> S, ret |-> FALSE]
        ELSE LET S1 == [S EXCEPT !.academics = Put(S.academics, key, academic)]
                 S2 == addNoveltyTile(S1,
                           Tile("New Academic", academic.name, <<>>, "academic", now),
                           now, q).S
             IN  [S |-> saveToLocalStorage(S2, q).S, ret |-> TRUE]

\* ---------------------------------------------------------- query engine

\* The least index of an entry of obj whose record satisfies P, or 0.
FirstIndex(obj, P(_)) ==
    IF \E i \in 1..Len(obj) : P(obj[i].rec)
    THEN CHOOSE i \in 1..Len(obj) :
            P(obj[i].rec) /\ \A j \in 1..(i - 1) : ~P(obj[j].rec)
    ELSE 0

\* getAcademic: the index of the entry returned (0 for null), or thrown,
\* the TypeError of toLowerCase on a record that has no name.
getAcademic(S, name) ==
    LET none == [index |-> 0, thrown |-> FALSE]
        normalizedKey == _normalizeNameKey(name)
        lowerName == toLowerCase(name)
        exact == FirstIndex(S.academics,
                    LAMBDA r : r.name = Undefined \/ toLowerCase(r.name) = lowerName)
        partial == FirstIndex(S.academics,
                    LAMBDA r : \/ includesStr(toLowerCase(r.name), lowerName)
                               \/ includesStr(lowerName, toLowerCase(r.name)))
    IN  IF ~Truthy(name) THEN none
        ELSE IF HasKey(S.academics, normalizedKey)
             THEN [index |-> IndexOfKey(S.academics, normalizedKey), thrown |-> FALSE]
        ELSE IF exact # 0
             THEN IF S.academics[exact].rec.name = Undefined
                  THEN [index |-> 0, thrown |-> TRUE]
                  ELSE [index |-> exact, thrown |-> FALSE]
        ELSE [index |-> partial, thrown |-> FALSE]

\* The fields searchAcademics looks at (line 397).
taxonomyFields == <<"discipline", "tradition", "era", "methodology", "theme">>

\* criteria[field] is given and is not the empty string.
Supplied(criteria, field) ==
    field \in DOMAIN criteria.fields /\ criteria.fields[field] # <<>>

\* Lines 383-417 for one record that has a name, or when no name is asked.
SearchMatch(academic, criteria) ==
    /\ Truthy(criteria.name) =>
           includesStr(toLowerCase(academic.name), toLowerCase(criteria.name))
    /\ \A k \in 1..Len(taxonomyFields) :
           LET field == taxonomyFields[k]
               criteriaValue == toLowerCase(criteria.fields[field])
           IN  Supplied(criteria, field) =>
                 /\ field \in DOMAIN academic.taxonomies
                 /\ \E i \in 1..Len(academic.taxonomies[field]) :
                       LET value == toLowerCase(academic.taxonomies[field][i])
                       IN  \/ includesStr(value, criteriaValue)
                           \/ includesStr(criteriaValue, value)

\* The order of String.prototype.localeCompare on the characters of the
\* model: a letter before the next letter, lower case before upper case.
Collation ==
    <<" ", "-", "!", "0", "1", "2", "3", "4", "5", "6", "7", "8", "9",
      "a", "A", "b", "B", "c", "C", "d", "D", "e", "E", "f", "F", "g", "G",
      "h", "H", "i", "I", "j", "J", "k", "K", "l", "L", "m", "M", "n", "N",
      "o", "O", "p", "P", "q", "Q", "r", "R", "s", "S", "t", "T", "u", "U",
      "v", "V", "w", "W", "x", "X", "y", "Y", "z", "Z">>

CollationRank(c) ==
    IF \E i \in 1..Len(Collation) : Collation[i] = c
    THEN CHOOSE i \in 1..Len(Collation) : Collation[i] = c
    ELSE 0

RECURSIVE localeCompare(_, _)
localeCompare(a, b) ==
    IF a = <<>> /\ b = <<>> THEN 0
    ELSE IF a = <<>> THEN -1
    ELSE IF b = <<>> THEN 1
    ELSE IF CollationRank(Head(a)) < CollationRank(Head(b)) THEN -1
    ELSE IF CollationRank(Head(a)) > CollationRank(Head(b)) THEN 1
    ELSE localeCompare(Tail(a), Tail(b))

\* s.indexOf(q): the 0-based position of the first occurrence, or -1.
indexOf(s, q) ==
    IF includesStr(s, q)
    THEN CHOOSE i \in 0..Len(s) :
            /\ i + Len(q) <= Len(s)
            /\ \A j \in 1..Len(q) : s[i + j] = q[j]
            /\ \A h \in 0..(i - 1) :
                  ~(h + Len(q) <= Len(s) /\ \A j \in 1..Len(q) : s[h + j] = q[j])
    ELSE -1

\* A comparator that looks at the position of the match only.
CompareByPosition(aName, bName, nameQuery) ==
    LET aNameIndex == indexOf(toLowerCase(aName), nameQuery)
        bNameIndex == indexOf(toLowerCase(bName), nameQuery)
    IN  IF aNameIndex # -1 /\ bNameIndex # -1 THEN aNameIndex - bNameIndex
        ELSE localeCompare(aName, bName)

\* The comparator of lines 428-444 on two names.
CompareByRelevance(aName, bName, nameQuery) ==
    LET aNameMatch == toLowerCase(aName) = nameQuery
        bNameMatch == toLowerCase(bName) = nameQuery
        aNameIndex == indexOf(toLowerCase(aName), nameQuery)
        bNameIndex == indexOf(toLowerCase(bName), nameQuery)
    IN  IF aNameMatch /\ ~bNameMatch THEN -1
        ELSE IF ~aNameMatch /\ bNameMatch THEN 1
        ELSE IF aNameIndex # -1 /\ bNameIndex # -1 THEN aNameIndex - bNameIndex
        ELSE localeCompare(aName, bName)

\* Array.prototype.sort is stable: an element goes behind every element
\* that does not compare greater than it.
RECURSIVE InsertByRelevance(_, _, _, _)
InsertByRelevance(sorted, i, catalogue, nameQuery) ==
    IF sorted = <<>> THEN <<i>>
    ELSE IF CompareByRelevance(catalogue[Head(sorted)].rec.name,
                               catalogue[i].rec.name, nameQuery) <= 0
         THEN <<Head(sorted)>> \o InsertByRelevance(Tail(sorted), i, catalogue, nameQuery)
         ELSE <<i>> \o sorted

RECURSIVE SortByRelevance(_, _, _, _)
SortByRelevance(sorted, rest, catalogue, nameQuery) ==
    IF rest = <<>> THEN sorted
    ELSE SortByRelevance(InsertByRelevance(sorted, Head(rest), catalogue, nameQuery),
                         Tail(rest), catalogue, nameQuery)

\* searchAcademics: the indices of the records returned, in the order of
\* the result; thrown is the TypeError of toLowerCase on a record without
\* a name, which a name criterion meets before anything is returned.
searchAcademics(S, criteria) ==
    LET catalogue == S.academics
        matching == SelectSeq([i \in 1..Len(catalogue) |-> i],
                       LAMBDA i : SearchMatch(catalogue[i].rec, criteria))
    IN  IF /\ Truthy(criteria.name)
           /\ \E i \in 1..Len(catalogue) : catalogue[i].rec.name = Undefined
        THEN [S |-> S, ret |-> [results |-> <<>>, thrown |-> TRUE]]
        ELSE [S |-> S,
              ret |-> [results |->
                           IF Truthy(criteria.name)
                           THEN SortByRelevance(<<>>, matching, catalogue,
                                                toLowerCase(criteria.name))
                           ELSE matching,
                       thrown |-> FALSE]]

\* getAllAcademics with getAcademicsByConnection: the indices of the
\* records that list the name among their connections.
getAcademicsByConnection(S, academicName) ==
    [S |-> S,
     ret |-> IF ~Truthy(academicName) THEN <<>>
             ELSE SelectSeq([i \in 1..Len(S.academics) |-> i],
                      LAMBDA i : includes(S.academics[i].rec.connections,
                                          academicName))]

\* The links one record gives: a link for each connection that is the id
\* of a node.
LinksOf(academic, ids) ==
    LET targets == SelectSeq(academic.connections, LAMBDA c : c \in ids)
    IN  [i \in 1..Len(targets) |->
            [source |-> academic.name, target |-> targets[i], value |-> 1]]

RECURSIVE AllLinks(_, _)
AllLinks(catalogue, ids) ==
    IF catalogue = <<>> THEN <<>>
    ELSE LinksOf(Head(catalogue).rec, ids) \o AllLinks(Tail(catalogue), ids)

\* getNetworkData: a node for each record whose name is truthy, grouped by
\* its first discipline.
getNetworkData(S) ==
    LET named == SelectSeq(S.academics, LAMBDA e : Truthy(e.rec.name))
        group(academic) ==
            IF /\ "discipline" \in DOMAIN academic.taxonomies
               /\ Len(academic.taxonomies["discipline"]) > 0
               /\ academic.taxonomies["discipline"][1] # <<>>
            THEN academic.taxonomies["discipline"][1]
            ELSE <<"U","n","k","n","o","w","n">>
        nodes == [i \in 1..Len(named) |->
                     [id |-> named[i].rec.name, group |-> group(named[i].rec)]]
        ids == {nodes[i].id : i \in 1..Len(nodes)}
    IN  [S |-> S, ret |-> [nodes |-> nodes, links |-> AllLinks(S.academics, ids)]]

\* A getRecentNoveltyTiles that sorts and cuts this.noveltyTiles itself.
getRecentNoveltyTilesInPlace(S, limit) ==
    [S |-> [S EXCEPT !.noveltyTiles = slice(sortByDateDesc(S.noveltyTiles), limit)],
     ret |-> slice(sortByDateDesc(S.noveltyTiles), limit)]

\* getRecentNoveltyTiles: a sorted copy, cut to the limit.
getRecentNoveltyTiles(S, limit) ==
    [S |-> S, ret |-> slice(sortByDateDesc(S.noveltyTiles), limit)]

\* An export that leaves out the first record of the catalogue.
exportToJSONWithoutFirst(S, now) ==
    [S |-> S,
     ret |-> JSONstringify(
                 [hasAcademics |-> TRUE,
                  academics |-> IF S.academics = <<>> THEN <<>> ELSE Tail(S.academics),
                  hasTaxonomyCategories |-> TRUE,
                  taxonomyCategories |-> S.taxonomyCategories,
                  exportDate |-> now])]

\* exportToJSON: the text of {academics, taxonomyCategories, exportDate}.
\* JSON.parse of JSON.stringify gives back strings, numbers, arrays and
\* objects of those as they were; a property that is undefined is left
\* out of the text, and a property left out reads as undefined.
exportToJSON(S, now) ==
    [S |-> S,
     ret |-> JSONstringify(
                 [hasAcademics |-> TRUE, academics |-> S.academics,
                  hasTaxonomyCategories |-> TRUE,
                  taxonomyCategories |-> S.taxonomyCategories,
                  exportDate |-> now])]

\* ------------------------------------------------------------ extraction

\* Positions in a text count its characters from 1; the position after the
\* kept character is Len + 1, and 0 says that nothing was found.

\* The literal stands in s at position p.
StandsAt(s, p, lit) ==
    /\ p >= 1 /\ p + Len(lit) - 1 <= Len(s)
    /\ \A j \in 1..Len(lit) : s[p + j - 1] = lit[j]

\* The same under the i flag; lit is written in lower case.
StandsAtI(s, p, lit) ==
    /\ p >= 1 /\ p + Len(lit) - 1 <= Len(s)
    /\ \A j \in 1..Len(lit) : toLowerCaseChar(s[p + j - 1]) = lit[j]

\* The position after the one literal of lits that stands at p, or 0.  No
\* two literals of one pattern stand at the same position.
LabelEnd(s, p, lits) ==
    IF \E lit \in lits : StandsAtI(s, p, lit)
    THEN p + Len(CHOOSE lit \in lits : StandsAtI(s, p, lit))
    ELSE 0

\* The first position from p on where a literal of lits stands, or 0.
Search(s, lits, p) ==
    LET hits == {q \in p..Len(s) : LabelEnd(s, q, lits) # 0}
    IN  IF hits = {} THEN 0 ELSE CHOOSE q \in hits : \A x \in hits : q <= x

\* The position after the run of \s characters that starts at p.
RECURSIVE SkipSpaces(_, _)
SkipSpaces(s, p) ==
    IF p <= Len(s) /\ IsSpace(s[p]) THEN SkipSpaces(s, p + 1) ELSE p

\* The position of the first newline from p on, or the position after the
\* text.
RECURSIVE LineEnd(_, _)
LineEnd(s, p) ==
    IF p > Len(s) \/ s[p] = "\n" THEN p ELSE LineEnd(s, p + 1)

\* s.substring(from - 1, to - 1): the characters from position from up to,
\* not including, position to.
Between(s, from, to) == SubSeq(s, from, to - 1)

RECURSIVE DropSpacesAtEnd(_)
DropSpacesAtEnd(s) ==
    IF s # <<>> /\ IsSpace(s[Len(s)])
    THEN DropSpacesAtEnd(SubSeq(s, 1, Len(s) - 1)) ELSE s

\* s.trim()
trim(s) == DropSpacesAtEnd(DropSpaces(s))

\* \s*([^\n]+) matched from p: the capture as [matched, from, to].  The
\* greedy \s* takes every space; when that leaves nothing for [^\n]+ it
\* gives back characters from the eol until one is not a newline.
LineCapture(s, p) ==
    LET q == SkipSpaces(s, p)
        givenBack == {r \in p..Len(s) : s[r] # "\n"}
        kept == CHOOSE r \in givenBack : \A x \in givenBack : x <= r
    IN  IF q <= Len(s)
        THEN [matched |-> TRUE, from |-> q, to |-> LineEnd(s, q)]
        ELSE IF givenBack # {}
             THEN [matched |-> TRUE, from |-> kept, to |-> LineEnd(s, kept)]
             ELSE [matched |-> FALSE, from |-> 0, to |-> 0]

\* The first position from p on where a label of lits stands and
\* \s*([^\n]+) matches behind it, or 0.
RECURSIVE SearchLabelled(_, _, _)
SearchLabelled(s, lits, p) ==
    LET at == Search(s, lits, p)
    IN  IF at = 0 THEN 0
        ELSE IF LineCapture(s, LabelEnd(s, at, lits)).matched THEN at
        ELSE SearchLabelled(s, lits, at + 1)

\* The same for a label that ^ ties to the start of a line (m flag).
RECURSIVE SearchLabelledLine(_, _, _)
SearchLabelledLine(s, lits, p) ==
    LET at == Search(s, lits, p)
    IN  IF at = 0 THEN 0
        ELSE IF /\ (at = 1 \/ s[at - 1] = "\n")
                /\ LineCapture(s, LabelEnd(s, at, lits)).matched
             THEN at
        ELSE SearchLabelledLine(s, lits, at + 1)

\* jsonRegex, /```(?:json)?\s*([\s\S]*?)```/: the capture of the first
\* fenced block as [matched, text].
\* The character U+0060, which a TLA+ string cannot hold.
Backtick == "backtick"

FenceMark == <<Backtick, Backtick, Backtick>>

\* The first position from p on where the literal stands, or 0.
SearchExact(s, lit, p) ==
    LET hits == {q \in p..Len(s) : StandsAt(s, q, lit)}
    IN  IF hits = {} THEN 0 ELSE CHOOSE q \in hits : \A x \in hits : q <= x

jsonRegex(text) ==
    LET open == SearchExact(text, FenceMark, 1)
        afterMark == open + Len(FenceMark)
        afterJson == IF StandsAt(text, afterMark, <<"j","s","o","n">>)
                     THEN afterMark + 4 ELSE afterMark
        from == SkipSpaces(text, afterJson)
        close == SearchExact(text, FenceMark, from)
    IN  IF open = 0 \/ close = 0
        THEN [matched |-> FALSE, text |-> <<>>]
        ELSE [matched |-> TRUE, text |-> Between(text, from, close)]

\* The three namePatterns, in their order.
\*   /Name:\s*([^\n]+)/i   /\*\*Name:\*\*\s*([^\n]+)/i
NameLabels == << {<<"n","a","m","e",":">>}, {<<"*","*","n","a","m","e",":",
    "*","*">>} >>

\* The capture of namePatterns[k] for k = 1, 2, as [matched, text].
LabelledName(text, k) ==
    LET at == SearchLabelled(text, NameLabels[k], 1)
        capture == LineCapture(text, LabelEnd(text, at, NameLabels[k]))
    IN  IF at = 0 THEN [matched |-> FALSE, text |-> <<>>]
        ELSE [matched |-> TRUE, text |-> Between(text, capture.from, capture.to)]

\* /^([^:\n]+)(?:\n|$)/m : the first line that is not empty and has no
\* colon, from the line that starts at p on.
RECURSIVE FirstLineWithoutColon(_, _)
FirstLineWithoutColon(text, p) ==
    IF p > Len(text) THEN [matched |-> FALSE, text |-> <<>>]
    ELSE LET eol == LineEnd(text, p)
             line == Between(text, p, eol)
         IN  IF line # <<>> /\ \A i \in 1..Len(line) : line[i] # ":"
             THEN [matched |-> TRUE, text |-> line]
             ELSE FirstLineWithoutColon(text, eol + 1)

namePattern(text, k) ==
    IF k <= 2 THEN LabelledName(text, k) ELSE FirstLineWithoutColon(text, 1)

\* The loop over namePatterns from the k-th on: the first capture that is
\* not blank, trimmed; the empty string when there is none.
RECURSIVE ExtractName(_, _)
ExtractName(text, k) ==
    IF k > 3 THEN <<>>
    ELSE LET nameMatch == namePattern(text, k)
         IN  IF nameMatch.matched /\ trim(nameMatch.text) # <<>>
             THEN trim(nameMatch.text)
             ELSE ExtractName(text, k + 1)

\* The words that end a bio: (?!Papers|Events|Connections|Taxonomies).
SectionWords == {<<"p","a","p","e","r","s">>, <<"e","v","e","n","t",
    "s">>, <<"c","o","n","n","e","c","t","i","o","n","s">>, <<"t","a","x","o",
    "n","o","m","i","e","s">>}

\* (?:\n(?!Papers|Events|Connections|Taxonomies).+)* from the newline at
\* position e on: the position where the capture ends.
RECURSIVE BioEnd(_, _)
BioEnd(s, e) ==
    IF /\ e + 1 <= Len(s)
       /\ s[e + 1] # "\n"
       /\ LabelEnd(s, e + 1, SectionWords) = 0
    THEN BioEnd(s, LineEnd(s, e + 1))
    ELSE e

\* The three bioPatterns; the third is tied to the start of a line.
BioLabels ==
    << {<<"b","i","o",":">>, <<"b","i","o","g","r","a","p","h","y",":">>},
       {<<"*","*","b","i","o",":","*","*">>, <<"*","*","b","i","o","g","r",
           "a","p","h","y",":","*","*">>},
       {<<"a","b","o","u","t",":">>, <<"b","a","c","k","g","r","o","u","n",
           "d",":">>} >>

bioPattern(text, k) ==
    LET at == IF k <= 2 THEN SearchLabelled(text, BioLabels[k], 1)
              ELSE SearchLabelledLine(text, BioLabels[k], 1)
        capture == LineCapture(text, LabelEnd(text, at, BioLabels[k]))
    IN  IF at = 0 THEN [matched |-> FALSE, text |-> <<>>]
        ELSE [matched |-> TRUE,
              text |-> Between(text, capture.from, BioEnd(text, capture.to))]

\* s.replace(/\n\s*/g, ' ')
RECURSIVE JoinLines(_)
JoinLines(s) ==
    IF s = <<>> THEN <<>>
    ELSE IF Head(s) = "\n" THEN <<" ">> \o JoinLines(DropSpaces(Tail(s)))
    ELSE <<Head(s)>> \o JoinLines(Tail(s))

RECURSIVE ExtractBio(_, _)
ExtractBio(text, k) ==
    IF k > 3 THEN <<>>
    ELSE LET bioMatch == bioPattern(text, k)
         IN  IF bioMatch.matched /\ trim(bioMatch.text) # <<>>
             THEN JoinLines(trim(bioMatch.text))
             ELSE ExtractBio(text, k + 1)

\* \n\s*\n stands at p: a newline, and another one in the run of spaces
\* behind it.
BlankLineAt(s, p) ==
    /\ p <= Len(s) /\ s[p] = "\n"
    /\ \E r \in (p + 1)..(SkipSpaces(s, p + 1) - 1) : s[r] = "\n"

\* The lookahead (?=(?:A|B|C):|\n\s*\n|$) of the section patterns: the
\* first position from p on where a heading of stops stands, or a blank
\* line starts, or the text ends.
SectionEnd(s, p, stops) ==
    LET ends == {q \in p..Len(s) : LabelEnd(s, q, stops) # 0 \/ BlankLineAt(s, q)}
    IN  IF ends = {} THEN Len(s) + 1
        ELSE CHOOSE q \in ends : \A x \in ends : q <= x

\* /Label:\s*([\s\S]*?)(?=...)/i for one set of labels, as [matched, text].
sectionPattern(text, lits, stops) ==
    LET at == Search(text, lits, 1)
        from == SkipSpaces(text, LabelEnd(text, at, lits))
    IN  IF at = 0 THEN [matched |-> FALSE, text |-> <<>>]
        ELSE [matched |-> TRUE,
              text |-> Between(text, from, SectionEnd(text, from, stops))]

\* The loop over the patterns of one section from the k-th on: the first
\* capture that is not blank, trimmed, as [matched, text].
RECURSIVE ExtractSection(_, _, _, _)
ExtractSection(text, patterns, stops, k) ==
    IF k > Len(patterns) THEN [matched |-> FALSE, text |-> <<>>]
    ELSE LET sectionMatch == sectionPattern(text, patterns[k], stops)
         IN  IF sectionMatch.matched /\ trim(sectionMatch.text) # <<>>
             THEN [matched |-> TRUE, text |-> trim(sectionMatch.text)]
             ELSE ExtractSection(text, patterns, stops, k + 1)

\* papersPatterns; \s*\/\s* is written out for no space and one space.
papersPatterns ==
    << {<<"p","a","p","e","r","s",":">>, <<"p","a","p","e","r","s","/","p",
        "u","b","l","i","c","a","t","i","o","n","s",":">>, <<"p","a","p","e",
        "r","s"," ","/","p","u","b","l","i","c","a","t","i","o","n","s",":">>,
        <<"p","a","p","e","r","s","/"," ","p","u","b","l","i","c","a","t","i",
            "o","n","s",":">>, <<"p","a","p","e","r","s"," ","/"," ","p","u",
            "b","l","i","c","a","t","i","o","n","s",":">>},
       {<<"p","u","b","l","i","c","a","t","i","o","n","s",":">>},
       {<<"m","a","j","o","r"," ","w","o","r","k","s",":">>} >>
connectionsPatterns ==
    << {<<"c","o","n","n","e","c","t","i","o","n","s",":">>}, {<<"i","n","f",
        "l","u","e","n","c","e","s",":">>}, {<<"r","e","l","a","t","e","d",
        " ","a","c","a","d","e","m","i","c","s",":">>} >>
taxonomyPatterns ==
    << {<<"t","a","x","o","n","o","m","i","e","s",":">>}, {<<"c","a","t","e",
        "g","o","r","i","e","s",":">>}, {<<"c","l","a","s","s","i","f","i",
        "c","a","t","i","o","n","s",":">>} >>
eventsPatterns ==
    << {<<"e","v","e","n","t","s",":">>}, {<<"k","e","y"," ","d","a","t","e",
        "s",":">>}, {<<"t","i","m","e","l","i","n","e",":">>} >>

PapersStops == {<<"e","v","e","n","t","s",":">>, <<"c","o","n","n","e","c",
    "t","i","o","n","s",":">>, <<"t","a","x","o","n","o","m","i","e","s",
    ":">>}
ConnectionsStops == {<<"e","v","e","n","t","s",":">>, <<"p","a","p","e","r",
    "s",":">>, <<"t","a","x","o","n","o","m","i","e","s",":">>}
TaxonomyStops == {<<"e","v","e","n","t","s",":">>, <<"p","a","p","e","r","s",
    ":">>, <<"c","o","n","n","e","c","t","i","o","n","s",":">>}
EventsStops == {<<"p","a","p","e","r","s",":">>, <<"c","o","n","n","e","c",
    "t","i","o","n","s",":">>, <<"t","a","x","o","n","o","m","i","e","s",
    ":">>}

\* The bullets of /\n\s*[-*\u2022]\s*/, as far as the alphabet goes.
Bullets == {"-", "*"}

\* s.split(/\n\s*[-*\u2022]\s*/), reading from p an item that starts at start.
RECURSIVE SplitBullets(_, _, _)
SplitBullets(s, p, start) ==
    IF p > Len(s) THEN <<Between(s, start, Len(s) + 1)>>
    ELSE LET q == SkipSpaces(s, p + 1)
         IN  IF s[p] = "\n" /\ q <= Len(s) /\ s[q] \in Bullets
             THEN <<Between(s, start, p)>>
                  \o SplitBullets(s, SkipSpaces(s, q + 1), SkipSpaces(s, q + 1))
             ELSE SplitBullets(s, p + 1, start)

\* s.split(/,\s*/)
RECURSIVE SplitCommas(_, _, _)
SplitCommas(s, p, start) ==
    IF p > Len(s) THEN <<Between(s, start, Len(s) + 1)>>
    ELSE IF s[p] = ","
         THEN <<Between(s, start, p)>>
              \o SplitCommas(s, SkipSpaces(s, p + 1), SkipSpaces(s, p + 1))
         ELSE SplitCommas(s, p + 1, start)

\* \d{4} stands at p.
FourDigitsAt(s, p) ==
    p >= 1 /\ p + 3 <= Len(s) /\ \A j \in 0..3 : s[p + j] \in Digits

\* The first position from p on where \(\d{4}\) stands, or 0.
RECURSIVE SearchParenYear(_, _)
SearchParenYear(s, p) ==
    IF p > Len(s) THEN 0
    ELSE IF s[p] = "(" /\ FourDigitsAt(s, p + 1) /\ StandsAt(s, p + 5, <<")">>)
         THEN p
         ELSE SearchParenYear(s, p + 1)

\* The first position from p on where ,\s*\d{4} stands, or 0.
RECURSIVE SearchCommaYear(_, _)
SearchCommaYear(s, p) ==
    IF p > Len(s) THEN 0
    ELSE IF s[p] = "," /\ FourDigitsAt(s, SkipSpaces(s, p + 1))
         THEN p
         ELSE SearchCommaYear(s, p + 1)

DigitChars == <<"0","1","2","3","4","5","6","7","8","9">>
DigitValue(c) == (CHOOSE n \in 1..10 : DigitChars[n] = c) - 1

\* parseInt of the four digits at p.
parseInt(s, p) ==
    DigitValue(s[p]) * 1000 + DigitValue(s[p + 1]) * 100
        + DigitValue(s[p + 2]) * 10 + DigitValue(s[p + 3])

\* item.match(/\((\d{4})\)/) || item.match(/,\s*(\d{4})/), then year || 0.
ItemYear(item) ==
    LET paren == SearchParenYear(item, 1)
        comma == SearchCommaYear(item, 1)
    IN  IF paren # 0 THEN parseInt(item, paren + 1)
        ELSE IF comma # 0 THEN parseInt(item, SkipSpaces(item, comma + 1))
        ELSE 0

\* s without the characters from position from up to position to.
Without(s, from, to) == Between(s, 1, from) \o Between(s, to, Len(s) + 1)

\* item.replace(/\(\d{4}\)/, '').replace(/,\s*\d{4}/, '').trim()
StripYear(item) ==
    LET paren == SearchParenYear(item, 1)
        first == IF paren = 0 THEN item ELSE Without(item, paren, paren + 6)
        comma == SearchCommaYear(first, 1)
    IN  trim(IF comma = 0 THEN first
             ELSE Without(first, comma, SkipSpaces(first, comma + 1) + 4))

\* The position after the run of characters other than "." from p on.
RECURSIVE DotEnd(_, _)
DotEnd(s, p) ==
    IF p > Len(s) \/ s[p] = "." THEN p ELSE DotEnd(s, p + 1)

\* /with\s+([^\.]+)/i from p on, as [matched, at, from, to]: the match
\* starts at at and its capture is between from and to.  A \s+ that took
\* every space before a "." or the end gives its last space back.
RECURSIVE withRegex(_, _)
withRegex(s, p) ==
    LET spaces == SkipSpaces(s, p + 4)
    IN  IF p > Len(s)
        THEN [matched |-> FALSE, at |-> 0, from |-> 0, to |-> 0]
        ELSE IF StandsAtI(s, p, <<"w","i","t","h">>) /\ spaces > p + 4
                /\ (DotEnd(s, spaces) > spaces \/ spaces > p + 5)
             THEN IF DotEnd(s, spaces) > spaces
                  THEN [matched |-> TRUE, at |-> p, from |-> spaces,
                        to |-> DotEnd(s, spaces)]
                  ELSE [matched |-> TRUE, at |-> p, from |-> spaces - 1,
                        to |-> spaces]
             ELSE withRegex(s, p + 1)

\* \sand\s stands at p (no i flag).
AndAt(s, p) ==
    /\ p + 4 <= Len(s)
    /\ IsSpace(s[p]) /\ StandsAt(s, p + 1, <<"a","n",
        "d">>) /\ IsSpace(s[p + 4])

\* s.split(/(?:,|\sand\s)/g)
RECURSIVE SplitNames(_, _, _)
SplitNames(s, p, start) ==
    IF p > Len(s) THEN <<Between(s, start, Len(s) + 1)>>
    ELSE IF s[p] = ","
         THEN <<Between(s, start, p)>> \o SplitNames(s, p + 1, p + 1)
    ELSE IF AndAt(s, p)
         THEN <<Between(s, start, p)>> \o SplitNames(s, p + 5, p + 5)
    ELSE SplitNames(s, p + 1, start)

\* items.map(c => c.trim())
TrimAll(items) == [i \in 1..Len(items) |-> trim(items[i])]

\* items.map(c => c.trim()).filter(c => c)
TrimmedNotEmpty(items) == SelectSeq(TrimAll(items), LAMBDA c : c # <<>>)

\* s.startsWith(lit)
startsWith(s, lit) == StandsAt(s, 1, lit)

\* One paper of the list (lines 550-566).
ExtractedPaper(item) ==
    LET stripped == StripYear(item)
        coauthorsMatch == withRegex(stripped, 1)
    IN  IF coauthorsMatch.matched
        THEN [title |-> trim(Without(stripped, coauthorsMatch.at, coauthorsMatch.to)),
              year |-> ItemYear(item),
              coauthors |-> TrimmedNotEmpty(
                  LET names == Between(stripped, coauthorsMatch.from, coauthorsMatch.to)
                  IN  SplitNames(names, 1, 1))]
        ELSE [title |-> stripped, year |-> ItemYear(item), coauthors |-> <<>>]

\* The items of a list that are not blank and do not start with heading.
ListItems(items, heading) ==
    SelectSeq(items, LAMBDA item : /\ trim(item) # <<>>
                                   /\ ~startsWith(trim(item), heading))

ExtractPapers(text) ==
    LET papersMatch == ExtractSection(text, papersPatterns, PapersStops, 1)
        paperItems == ListItems(SplitBullets(papersMatch.text, 1, 1),
                                <<"P","u","b","l","i","c","a","t","i","o","n",
                                    "s",":">>)
    IN  IF ~papersMatch.matched THEN <<>>
        ELSE [i \in 1..Len(paperItems) |-> ExtractedPaper(paperItems[i])]

\* connection.replace(/^\d+\.\s*/, '')
StripOrdinal(s) ==
    LET digitsEnd == CHOOSE p \in 1..(Len(s) + 1) :
                        /\ \A j \in 1..(p - 1) : s[j] \in Digits
                        /\ (p > Len(s) \/ s[p] \notin Digits)
    IN  IF digitsEnd > 1 /\ digitsEnd <= Len(s) /\ s[digitsEnd] = "."
        THEN Between(s, SkipSpaces(s, digitsEnd + 1), Len(s) + 1)
        ELSE s

ExtractConnections(text) ==
    LET connectionsMatch ==
            ExtractSection(text, connectionsPatterns, ConnectionsStops, 1)
        connectionsText == connectionsMatch.text
        connectionItems ==
            IF \E i \in 1..Len(connectionsText) : connectionsText[i] \in Bullets
            THEN SplitBullets(connectionsText, 1, 1)
            ELSE SplitCommas(connectionsText, 1, 1)
        kept == SelectSeq(TrimAll(connectionItems),
                    LAMBDA c : c # <<>> /\ ~startsWith(c, <<"C","o","n","n",
                        "e","c","t","i","o","n","s",":">>))
    IN  IF ~connectionsMatch.matched THEN <<>>
        ELSE [i \in 1..Len(kept) |-> StripOrdinal(kept[i])]

\* s.split('\n')
RECURSIVE SplitLines(_)
SplitLines(s) ==
    LET eol == LineEnd(s, 1)
    IN  IF eol > Len(s) THEN <<s>>
        ELSE <<Between(s, 1, eol)>> \o SplitLines(Between(s, eol + 1, Len(s) + 1))

\* The five categories of the taxonomy line pattern.
Categories ==
    << [word |-> <<"d","i","s","c","i","p","l","i","n",
        "e">>, category |-> "discipline"],
       [word |-> <<"t","r","a","d","i","t","i","o",
           "n">>, category |-> "tradition"],
       [word |-> <<"e","r","a">>, category |-> "era"],
       [word |-> <<"m","e","t","h","o","d","o","l","o","g",
           "y">>, category |-> "methodology"],
       [word |-> <<"t","h","e","m","e">>, category |-> "theme"] >>

\* The position after the run of [:\s] characters from p on.
RECURSIVE SkipColonsAndSpaces(_, _)
SkipColonsAndSpaces(s, p) ==
    IF p <= Len(s) /\ (s[p] = ":" \/ IsSpace(s[p]))
    THEN SkipColonsAndSpaces(s, p + 1) ELSE p

\* (discipline|...|theme)[s]?[:\s]+(.+) tried with the category word at p:
\* [matched, category, text].  A run of [:\s] that reaches the end of the
\* line gives its last character back to (.+).
CategoryAt(line, p) ==
    LET k == CHOOSE j \in 1..Len(Categories) : StandsAtI(line, p, Categories[j].word)
        afterWord == p + Len(Categories[k].word)
        afterS == IF afterWord <= Len(line) /\ toLowerCaseChar(line[afterWord]) = "s"
                  THEN afterWord + 1 ELSE afterWord
        rest == SkipColonsAndSpaces(line, afterS)
        none == [matched |-> FALSE, category |-> "", text |-> <<>>]
    IN  IF ~\E j \in 1..Len(Categories) : StandsAtI(line, p, Categories[j].word)
        THEN none
        ELSE IF rest = afterS THEN none
        ELSE IF rest <= Len(line)
             THEN [matched |-> TRUE, category |-> Categories[k].category,
                   text |-> Between(line, rest, Len(line) + 1)]
        ELSE IF rest > afterS + 1
             THEN [matched |-> TRUE, category |-> Categories[k].category,
                   text |-> Between(line, rest - 1, rest)]
        ELSE none

\* line.match(/[-*\u2022]?\s*(discipline|tradition|era|methodology|theme)[s]?[:\s]+(.+)/i)
\* from p on: the bullet and the spaces are optional, so the match is at
\* the first category word behind which the rest of the pattern matches.
RECURSIVE categoryMatch(_, _)
categoryMatch(line, p) ==
    IF p > Len(line) THEN [matched |-> FALSE, category |-> "", text |-> <<>>]
    ELSE IF CategoryAt(line, p).matched THEN CategoryAt(line, p)
    ELSE categoryMatch(line, p + 1)

\* The values the lines give to one category, in the order of the lines.
RECURSIVE CategoryValues(_, _)
CategoryValues(lines, category) ==
    IF lines = <<>> THEN <<>>
    ELSE LET m == categoryMatch(Head(lines), 1)
         IN  (IF m.matched /\ m.category = category
              THEN TrimAll(SplitCommas(m.text, 1, 1)) ELSE <<>>)
             \o CategoryValues(Tail(lines), category)

ExtractTaxonomies(text) ==
    LET taxonomyMatch == ExtractSection(text, taxonomyPatterns, TaxonomyStops, 1)
        taxonomyLines == SplitLines(taxonomyMatch.text)
        found == {c \in {Categories[k].category : k \in 1..Len(Categories)} :
                     \E i \in 1..Len(taxonomyLines) :
                         LET m == categoryMatch(taxonomyLines[i], 1)
                         IN  m.matched /\ m.category = c}
    IN  IF ~taxonomyMatch.matched THEN [c \in {} |-> <<>>]
        ELSE [c \in found |-> CategoryValues(taxonomyLines, c)]

\* item.match(/,\s*([^,\d]+)$/), trimmed: what follows the last comma of
\* the item when that has no digit; the empty string otherwise.
Location(item) ==
    LET commas == {p \in 1..Len(item) : item[p] = ","}
        lastComma == CHOOSE p \in commas : \A x \in commas : x <= p
        tail == Between(item, lastComma + 1, Len(item) + 1)
    IN  IF commas = {} THEN <<>>
        ELSE IF tail = <<>> \/ \E i \in 1..Len(tail) : tail[i] \in Digits THEN <<>>
        ELSE trim(tail)

\* title.replace(new RegExp(`,\\s*${location}$`), '').trim()
StripLocation(title, location) ==
    LET at == Len(title) - Len(location) + 1
        before == DropSpacesAtEnd(Between(title, 1, at))
    IN  IF /\ at >= 1 /\ StandsAt(title, at, location)
           /\ before # <<>> /\ before[Len(before)] = ","
        THEN trim(Between(before, 1, Len(before)))
        ELSE title

\* One event of the list (lines 634-655).
ExtractedEvent(item) ==
    LET location == Location(item)
        title == StripYear(item)
    IN  [title |-> IF location # <<>> THEN StripLocation(title, location) ELSE title,
         year |-> ItemYear(item),
         location |-> location]

ExtractEvents(text) ==
    LET eventsMatch == ExtractSection(text, eventsPatterns, EventsStops, 1)
        eventItems == ListItems(SplitBullets(eventsMatch.text, 1, 1), <<"E",
            "v","e","n","t","s",":">>)
    IN  IF ~eventsMatch.matched THEN <<>>
        ELSE [i \in 1..Len(eventItems) |-> ExtractedEvent(eventItems[i])]

\* The JSON documents of the texts below, with the value JSON.parse gives
\* for each; JSON.parse throws on any other text.
JSONDocuments ==
    { [text |-> <<"{","\"","n","a","m","e","\"",":","\"","B","\"",",","\"",
        "b","i","o","\"",":","\"","b","2","\"",",","\"","t","a","x","o","n",
        "o","m","i","e","s","\"",":","{","}",",","\"","p","a","p","e","r","s",
        "\"",":","[","]",",","\"","e","v","e","n","t","s","\"",":","[","]",
        ",","\"","c","o","n","n","e","c","t","i","o","n","s","\"",":","[",
        "\"","A","\"","]","}">>,
       value |-> [name |-> <<"B">>, bio |-> <<"b",
           "2">>, taxonomies |-> [c \in {} |-> <<>>],
                  papers |-> <<>>, events |-> <<>>, connections |-> <<<<"A">>>>]],
      [text |-> <<"{","\"","n","a","m","e","\"",":","\"","M","i","c","h","e",
          "l"," ","F","o","u","c","a","u","l","t","\"",",","\"","t","a","x",
          "o","n","o","m","i","e","s","\"",":","{","}",",","\"","p","a","p",
          "e","r","s","\"",":","[","]",",","\"","e","v","e","n","t","s","\"",
          ":","[","]",",","\"","c","o","n","n","e","c","t","i","o","n","s",
          "\"",":","[","]","}">>,
       value |-> [name |-> <<"M","i","c","h","e","l"," ","F","o","u","c","a",
           "u","l","t">>, bio |-> Undefined,
                  taxonomies |-> [c \in {} |-> <<>>],
                  papers |-> <<>>, events |-> <<>>, connections |-> <<>>]],
      [text |-> <<"{","\"","b","i","o","\"",":","\"","x","\"","}">>,
       value |-> [name |-> Undefined, bio |-> <<"x">>, taxonomies |-> [c \in {} |-> <<>>],
                  papers |-> <<>>, events |-> <<>>, connections |-> <<>>]] }

\* JSON.parse of the text of a fenced block, as [thrown, value].
JSONparseBlock(chars) ==
    IF \E d \in JSONDocuments : d.text = chars
    THEN [thrown |-> FALSE,
          value |-> (CHOOSE d \in JSONDocuments : d.text = chars).value]
    ELSE [thrown |-> TRUE, value |-> <<>>]

\* What extractAcademicData returns: null, or the record.
NotFound ==
    [found |-> FALSE,
     academic |-> [name |-> Undefined, bio |-> Undefined,
                   taxonomies |-> [c \in {} |-> <<>>],
                   papers |-> <<>>, events |-> <<>>, connections |-> <<>>]]

\* The section-based parsing of lines 488-674.
HeadingExtraction(text) ==
    IF ExtractName(text, 1) = <<>> THEN NotFound
    ELSE [found |-> TRUE,
          academic |-> [name |-> ExtractName(text, 1),
                        bio |-> ExtractBio(text, 1),
                        taxonomies |-> ExtractTaxonomies(text),
                        papers |-> ExtractPapers(text),
                        events |-> ExtractEvents(text),
                        connections |-> ExtractConnections(text)]]

\* DeepSearchAPI.extractAcademicData
extractAcademicData(text) ==
    LET jsonMatch == jsonRegex(text)
        jsonData == JSONparseBlock(trim(jsonMatch.text))
    IN  IF \/ text = <<>>
           \/ ~includesStr(text, <<"n","a","m","e">>)
           \/ ~includesStr(text, <<"b","i","o">>)
        THEN NotFound
        ELSE IF /\ jsonMatch.matched /\ jsonMatch.text # <<>>
                /\ ~jsonData.thrown /\ Truthy(jsonData.value.name)
             THEN [found |-> TRUE, academic |-> jsonData.value]
        ELSE HeadingExtraction(text)


\* ------------------------------------------------ texts of a deep search

\* The labelled text of the extraction scenario.
\*     Name: Jacques Derrida
\*     Bio: French philosopher known for deconstruction.
\*     Papers:
\*     - Of Grammatology (1967)
\*     - Writing and Difference, 1967
\*     Connections:
\*     - Michel Foucault
\*     - Emmanuel Levinas
ScenarioText ==
    <<"N","a","m","e",":"," ","J","a","c","q","u","e","s"," ","D","e","r","r",
        "i","d","a","\n","B","i","o",":"," ","F","r","e","n","c","h"," ","p",
        "h","i","l","o","s","o","p","h","e","r"," ","k","n","o","w","n"," ",
        "f","o","r"," ","d","e","c","o","n","s","t","r","u","c","t","i","o",
        "n",".","\n","P","a","p","e","r","s",":","\n","-"," ","O","f"," ","G",
        "r","a","m","m","a","t","o","l","o","g","y"," ","(","1","9","6","7",
        ")","\n","-"," ","W","r","i","t","i","n","g"," ","a","n","d"," ","D",
        "i","f","f","e","r","e","n","c","e",","," ","1","9","6","7","\n","C",
        "o","n","n","e","c","t","i","o","n","s",":","\n","-"," ","M","i","c",
        "h","e","l"," ","F","o","u","c","a","u","l","t","\n","-"," ","E","m",
        "m","a","n","u","e","l"," ","L","e","v","i","n","a","s">>

\* The same text with its labels in lower case.
\*     name: Jacques Derrida
\*     bio: French philosopher known for deconstruction.
\*     Papers:
\*     - Of Grammatology (1967)
\*     - Writing and Difference, 1967
\*     Connections:
\*     - Michel Foucault
\*     - Emmanuel Levinas
ScenarioLowerCaseText ==
    <<"n","a","m","e",":"," ","J","a","c","q","u","e","s"," ","D","e","r","r",
        "i","d","a","\n","b","i","o",":"," ","F","r","e","n","c","h"," ","p",
        "h","i","l","o","s","o","p","h","e","r"," ","k","n","o","w","n"," ",
        "f","o","r"," ","d","e","c","o","n","s","t","r","u","c","t","i","o",
        "n",".","\n","P","a","p","e","r","s",":","\n","-"," ","O","f"," ","G",
        "r","a","m","m","a","t","o","l","o","g","y"," ","(","1","9","6","7",
        ")","\n","-"," ","W","r","i","t","i","n","g"," ","a","n","d"," ","D",
        "i","f","f","e","r","e","n","c","e",","," ","1","9","6","7","\n","C",
        "o","n","n","e","c","t","i","o","n","s",":","\n","-"," ","M","i","c",
        "h","e","l"," ","F","o","u","c","a","u","l","t","\n","-"," ","E","m",
        "m","a","n","u","e","l"," ","L","e","v","i","n","a","s">>

\* A text with every section.
\*     Name: Michel Foucault
\*     Biography: French historian of ideas;
\*     his name and bio are known.
\*     Papers:
\*     * Discipline and Punish (1975)
\*     * Preface with Gilles Deleuze and Felix Guattari, 1977
\*     
\*     Taxonomies:
\*     - Discipline: Philosophy, History
\*     - Eras: Contemporary
\*     Events:
\*     - Lecture at Berkeley (1983), California
\*     - Born, 1926
\*     Connections: Jacques Derrida, 2. Gilles Deleuze
FullText ==
    <<"N","a","m","e",":"," ","M","i","c","h","e","l"," ","F","o","u","c","a",
        "u","l","t","\n","B","i","o","g","r","a","p","h","y",":"," ","F","r",
        "e","n","c","h"," ","h","i","s","t","o","r","i","a","n"," ","o","f",
        " ","i","d","e","a","s",";","\n","h","i","s"," ","n","a","m","e"," ",
        "a","n","d"," ","b","i","o"," ","a","r","e"," ","k","n","o","w","n",
        ".","\n","P","a","p","e","r","s",":","\n","*"," ","D","i","s","c","i",
        "p","l","i","n","e"," ","a","n","d"," ","P","u","n","i","s","h"," ",
        "(","1","9","7","5",")","\n","*"," ","P","r","e","f","a","c","e"," ",
        "w","i","t","h"," ","G","i","l","l","e","s"," ","D","e","l","e","u",
        "z","e"," ","a","n","d"," ","F","e","l","i","x"," ","G","u","a","t",
        "t","a","r","i",","," ","1","9","7","7","\n","\n","T","a","x","o","n",
        "o","m","i","e","s",":","\n","-"," ","D","i","s","c","i","p","l","i",
        "n","e",":"," ","P","h","i","l","o","s","o","p","h","y",","," ","H",
        "i","s","t","o","r","y","\n","-"," ","E","r","a","s",":"," ","C","o",
        "n","t","e","m","p","o","r","a","r","y","\n","E","v","e","n","t","s",
        ":","\n","-"," ","L","e","c","t","u","r","e"," ","a","t"," ","B","e",
        "r","k","e","l","e","y"," ","(","1","9","8","3",")",","," ","C","a",
        "l","i","f","o","r","n","i","a","\n","-"," ","B","o","r","n",","," ",
        "1","9","2","6","\n","C","o","n","n","e","c","t","i","o","n","s",":",
        " ","J","a","c","q","u","e","s"," ","D","e","r","r","i","d","a",",",
        " ","2","."," ","G","i","l","l","e","s"," ","D","e","l","e","u","z",
        "e">>

\* A fenced JSON block with a name, in a text that has both words.
\*     Here is the bio:
\*     ```json
\*     {"name":"B","bio":"b2","taxonomies":{},"papers":[],"events":[],"connections":["A"]}
\*     ```
\*     name: A
JsonText ==
    <<"H","e","r","e"," ","i","s"," ","t","h","e"," ","b","i","o",":","\n",
        Backtick,Backtick,Backtick,"j","s","o","n","\n","{","\"","n","a","m",
        "e","\"",":","\"","B","\"",",","\"","b","i","o","\"",":","\"","b","2",
        "\"",",","\"","t","a","x","o","n","o","m","i","e","s","\"",":","{",
        "}",",","\"","p","a","p","e","r","s","\"",":","[","]",",","\"","e",
        "v","e","n","t","s","\"",":","[","]",",","\"","c","o","n","n","e","c",
        "t","i","o","n","s","\"",":","[","\"","A","\"","]","}","\n",Backtick,
        Backtick,Backtick,"\n","n","a","m","e",":"," ","A">>

\* A fenced JSON block with a name and nothing about a bio.
\*     ```json
\*     {"name":"Michel Foucault","taxonomies":{},"papers":[],"events":[],"connections":[]}
\*     ```
JsonWithoutBioText ==
    <<Backtick,Backtick,Backtick,"j","s","o","n","\n","{","\"","n","a","m",
        "e","\"",":","\"","M","i","c","h","e","l"," ","F","o","u","c","a","u",
        "l","t","\"",",","\"","t","a","x","o","n","o","m","i","e","s","\"",
        ":","{","}",",","\"","p","a","p","e","r","s","\"",":","[","]",",",
        "\"","e","v","e","n","t","s","\"",":","[","]",",","\"","c","o","n",
        "n","e","c","t","i","o","n","s","\"",":","[","]","}","\n",Backtick,
        Backtick,Backtick>>

\* A fenced JSON block without a name, and labelled lines.
\*     ```json
\*     {"bio":"x"}
\*     ```
\*     name: Emmanuel Levinas
JsonWithoutNameText ==
    <<Backtick,Backtick,Backtick,"j","s","o","n","\n","{","\"","b","i","o",
        "\"",":","\"","x","\"","}","\n",Backtick,Backtick,Backtick,"\n","n",
        "a","m","e",":"," ","E","m","m","a","n","u","e","l"," ","L","e","v",
        "i","n","a","s">>

\* A fenced block that is not JSON, and labelled lines.
\*     ```
\*     not json
\*     ```
\*     name: B
\*     bio: b1
\*     Influences:
\*     - 1. A
\*     - A-B
JsonGarbageText ==
    <<Backtick,Backtick,Backtick,"\n","n","o","t"," ","j","s","o","n","\n",
        Backtick,Backtick,Backtick,"\n","n","a","m","e",":"," ","B","\n","b",
        "i","o",":"," ","b","1","\n","I","n","f","l","u","e","n","c","e","s",
        ":","\n","-"," ","1","."," ","A","\n","-"," ","A","-","B">>

\* A name label with nothing behind it, at the end of the text.
\*     bio: x
\*     name:
NoNameText ==
    <<"b","i","o",":"," ","x","\n","n","a","m","e",":">>

\* The empty text.
EmptyText == <<>>

\* No name label: the name is the first line without a colon.
\*     Emmanuel Levinas
\*     bio: a name in ethics.
FirstLineText ==
    <<"E","m","m","a","n","u","e","l"," ","L","e","v","i","n","a","s","\n",
        "b","i","o",":"," ","a"," ","n","a","m","e"," ","i","n"," ","e","t",
        "h","i","c","s",".">>

\* The two words and nothing else.
\*     name bio
BareText ==
    <<"n","a","m","e"," ","b","i","o">>

\* A short labelled text whose connections are separated by commas.
\*     name: A
\*     bio: b1
\*     connections: B, Z
ShortText ==
    <<"n","a","m","e",":"," ","A","\n","b","i","o",":"," ","b","1","\n","c",
        "o","n","n","e","c","t","i","o","n","s",":"," ","B",","," ","Z">>

\* A name label with an empty line: \s* runs over the newline.
\*     name:
\*     bio: x
NameOnNextLineText ==
    <<"n","a","m","e",":","\n","b","i","o",":"," ","x">>

ExtractTexts ==
    {ScenarioText,
     ScenarioLowerCaseText,
     FullText,
     JsonText,
     JsonWithoutBioText,
     JsonWithoutNameText,
     JsonGarbageText,
     NoNameText,
     EmptyText,
     FirstLineText,
     BareText,
     ShortText,
     NameOnNextLineText}

\* ----------------------------------------------------------- enrichment

\* A loop that looks the connections up and adds nothing to them.
EnrichConnectionsNoPush(S, name, connections, now, q) ==
    [S |-> S, thrown |-> FALSE]

\* The forEach of enrichDatabase over academicData.connections (lines
\* 424-447).  forEach visits the elements the array had when it started.
RECURSIVE EnrichConnections(_, _, _, _, _)
EnrichConnections(S, name, connections, now, q) ==
    IF connections = <<>> THEN [S |-> S, thrown |-> FALSE]
    ELSE
    LET found == getAcademic(S, Head(connections))
    IN  IF found.thrown THEN [S |-> S, thrown |-> TRUE]
        ELSE IF found.index = 0
             THEN EnrichConnections(S, name, Tail(connections), now, q)
        ELSE
        LET connectedAcademic == S.academics[found.index].rec
        IN  IF includes(connectedAcademic.connections, name)
            THEN EnrichConnections(S, name, Tail(connections), now, q)
            ELSE
            LET pushed == [connectedAcademic EXCEPT
                              !.connections = Append(@, name)]
                S1 == [S EXCEPT !.academics[found.index].rec = pushed]
                S2 == addOrUpdateAcademic(S1, pushed, now, q).S
                S3 == addNoveltyTile(S2,
                          Tile("New Connection", pushed.name, name,
                               "connection", now), now, q).S
            IN  EnrichConnections(S3, name, Tail(connections), now, q)

\* DeepSearchAPI.enrichDatabase
enrichDatabase(S, academicData, now, q) ==
    IF ~Truthy(academicData.name) THEN [S |-> S, ret |-> FALSE]
    ELSE
    LET added == addOrUpdateAcademic(S, academicData, now, q)
    IN  IF ~added.ret THEN [S |-> added.S, ret |-> FALSE]
        ELSE
        LET S1 == addNoveltyTile(added.S,
                      Tile("Database Enriched", academicData.name, <<>>,
                           "academic", now), now, q).S
            linked == EnrichConnections(S1, academicData.name,
                          academicData.connections, now, q)
        IN  [S |-> linked.S, ret |-> ~linked.thrown]

\* ------------------------------------------------- import, clear, others

\* importFromJSON.  An import text that parses is
\* [hasAcademics, academics, hasTaxonomyCategories, taxonomyCategories].
importFromJSON(S, jsonData, now, q) ==
    IF JSONparseThrows(jsonData) THEN [S |-> S, ret |-> FALSE]
    ELSE
    LET importedData == JSONparse(jsonData)
    IN  IF ~importedData.hasAcademics \/ ~typeofObject(importedData.academics)
        THEN [S |-> S, ret |-> FALSE]
        ELSE
        LET backupAcademics == spread(S.academics)
            S1 == [S EXCEPT
                     !.academics = importedData.academics,
                     !.taxonomyCategories =
                         IF importedData.hasTaxonomyCategories
                         THEN importedData.taxonomyCategories ELSE @]
            saved == saveToLocalStorage(S1, q)
        IN  IF ~saved.ret
            THEN [S |-> [saved.S EXCEPT !.academics = backupAcademics],
                  ret |-> FALSE]
            ELSE [S |-> addNoveltyTile(saved.S,
                            Tile("Database Import", <<>>, <<>>, "system", now),
                            now, q).S,
                  ret |-> TRUE]

\* clearDatabase.  The write of the pre-clear backup is inside the try of
\* the method: when it throws nothing is cleared.
clearDatabase(S, q) ==
    IF S.localStorageSupported /\ q = "acadThenFail"
    THEN [S |-> S, ret |-> FALSE]
    ELSE
    LET S1 == IF S.localStorageSupported
              THEN [S EXCEPT !.ls.backupBeforeClear =
                                 Item(JSONstringify(S.academics))]
              ELSE S
        S2 == [S1 EXCEPT !.academics = <<>>, !.noveltyTiles = <<>>,
                         !.favorites = <<>>, !.pendingSubmissions = <<>>]
    IN  [S |-> saveToLocalStorage(S2, q).S, ret |-> TRUE]

\* addToFavorites
addToFavorites(S, academicName, q) ==
    IF ~Truthy(academicName) THEN [S |-> S, ret |-> FALSE]
    ELSE IF includes(S.favorites, academicName) THEN [S |-> S, ret |-> TRUE]
    ELSE [S |-> saveToLocalStorage(
                    [S EXCEPT !.favorites = Append(@, academicName)], q).S,
          ret |-> TRUE]

\* removeFromFavorites: indexOf gives the first occurrence.
removeFromFavorites(S, academicName, q) ==
    IF ~Truthy(academicName) THEN [S |-> S, ret |-> FALSE]
    ELSE IF ~includes(S.favorites, academicName) THEN [S |-> S, ret |-> TRUE]
    ELSE
    LET index == CHOOSE i \in 1..Len(S.favorites) :
                    /\ S.favorites[i] = academicName
                    /\ \A j \in 1..(i - 1) : S.favorites[j] # academicName
        spliced == [i \in 1..(Len(S.favorites) - 1) |->
                       IF i < index THEN S.favorites[i] ELSE S.favorites[i + 1]]
    IN  [S |-> saveToLocalStorage([S EXCEPT !.favorites = spliced], q).S,
         ret |-> TRUE]

\* ------------------------------------------------------ program constants

\* The taxonomyCategories the constructor sets (lines 11-21).
DefaultTaxonomyCategories ==
    [discipline |-> <<"Philosophy", "Sociology", "Literary Theory", "Political Science", "History", "Gender Studies", "Anthropology", "Psychology">>,
     tradition |-> <<"Existentialism", "Post-structuralism", "Phenomenology", "Critical Theory", "Marxism", "Hermeneutics", "Pragmatism">>,
     era |-> <<"20th Century", "21st Century", "Contemporary", "Modern", "Ancient", "Medieval">>,
     methodology |-> <<"Textual Analysis", "Dialectical Method", "Genealogy", "Deconstruction", "Ethnography", "Discourse Analysis">>,
     theme |-> <<"Power", "Identity", "Language", "Justice", "Ethics", "Consciousness", "Embodiment", "Capitalism", "Democracy", "Technology">>]

\* The placeholder catalogue of _initializeDefaultData (lines 81-100).
SampleAcademic ==
    [name |-> <<"S","a","m","p","l","e"," ","A","c","a","d","e","m","i","c">>,
     bio |-> <<"T", "h", "i", "s", " ", "i", "s", " ", "a", " ", "s", "a", "m", "p", "l", "e", " ", "a", "c", "a", "d", "e", "m", "i", "c", " ", "e", "n", "t", "r", "y", ".">>,
     taxonomies |-> [discipline |-> <<<<"P","h","i","l","o","s","o","p","h","y">>>>,
                     tradition |-> <<<<"C","r","i","t","i","c","a","l"," ","T","h","e","o","r","y">>>>,
                     era |-> <<<<"C","o","n","t","e","m","p","o","r","a","r","y">>>>,
                     methodology |-> <<<<"T","e","x","t","u","a","l"," ","A","n","a","l","y","s","i","s">>>>,
                     theme |-> <<<<"P","o","w","e","r">>>>],
     papers |-> <<[title |-> <<"S","a","m","p","l","e"," ","P","a","p","e","r">>, year |-> 2020, coauthors |-> <<>>]>>,
     events |-> <<[title |-> <<"S","a","m","p","l","e"," ","E","v","e","n","t">>, year |-> 2021,
                   location |-> <<"V","i","r","t","u","a","l"," ","C","o","n","f","e","r","e","n","c","e">>]>>,
     connections |-> <<<<"J","a","c","q","u","e","s"," ","D","e","r","r","i","d","a">>, <<"M","i","c","h","e","l"," ","F","o","u","c","a","u","l","t">>>>]

DefaultData == <<[key |-> <<"s","a","m","p","l","e","-","a","c","a","d","e","m","i","c">>, rec |-> SampleAcademic]>>

\* ----------------------------------------------------------------- inputs

\* Names whose keys coincide (A and a!), differ (B), and contain one another
\* as substrings (A B).
NameA == <<"A">>
NameALower == <<"a", "!">>
NameB == <<"B">>
NameAB == <<"A", " ", "B">>

NoTaxonomies == [c \in {} |-> <<>>]

Paper(title, year) == [title |-> title, year |-> year, coauthors |-> <<>>]
Event(title, year) == [title |-> title, year |-> year, location |-> <<>>]

\* What a candidate carries besides its name.  Titles differ in case only,
\* years are equal, different or missing (0), one paper has no title, and
\* one connection list and one taxonomy list repeat a value.
Details ==
    { [bio |-> <<>>, taxonomies |-> NoTaxonomies, papers |-> <<>>,
       events |-> <<>>, connections |-> <<>>],
      [bio |-> <<"b", "1">>, taxonomies |-> [discipline |-> <<<<"P">>>>],
       papers |-> <<Paper(<<"O">>, 1967)>>,
       events |-> <<>>, connections |-> <<NameB>>],
      [bio |-> <<"b", "2">>, taxonomies |-> [discipline |-> <<<<"S">>, <<"P">>>>, era |-> <<>>],
       papers |-> <<Paper(<<"o">>, 0), Paper(<<"o">>, 1968)>>,
       events |-> <<Event(<<"E">>, 2000)>>, connections |-> <<NameAB, NameB>>],
      [bio |-> <<>>, taxonomies |-> [discipline |-> <<<<"P">>, <<"P">>>>],
       papers |-> <<Paper(Undefined, 0)>>,
       events |-> <<Event(<<"e">>, 0)>>, connections |-> <<NameA, NameA>>] }

CandidateNames == {<<>>, Undefined, NameA, NameALower, NameB, NameAB}

Academic(name, d) ==
    [name |-> name, bio |-> d.bio, taxonomies |-> d.taxonomies,
     papers |-> d.papers, events |-> d.events, connections |-> d.connections]

EmptyDetails == CHOOSE d \in Details : d.bio = <<>> /\ d.connections = <<>>

Candidates ==
    {Academic(n, d) : n \in CandidateNames \ {<<>>, Undefined}, d \in Details}
        \cup {Academic(<<>>, d) : d \in Details \ {EmptyDetails}}
        \cup {Academic(Undefined, EmptyDetails)}

\* A catalogue an earlier session of the page saved.
SavedAcademics ==
    <<[key |-> <<"a">>,
       rec |-> [name |-> NameA, bio |-> <<"b", "1">>,
                taxonomies |-> [discipline |-> <<<<"P">>>>],
                papers |-> <<Paper(<<"o">>, 1967)>>,
                events |-> <<>>, connections |-> <<NameB>>]],
      [key |-> <<"b">>,
       rec |-> [name |-> NameB, bio |-> <<>>, taxonomies |-> NoTaxonomies,
                papers |-> <<>>, events |-> <<>>, connections |-> <<>>]]>>

EmptyStorage ==
    [academics |-> Null, noveltyTiles |-> Null, favorites |-> Null,
     pendingSubmissions |-> Null, backup |-> Null, backupBeforeClear |-> Null]

SavedStorage ==
    [EmptyStorage EXCEPT
        !.academics = Item(JSONstringify(SavedAcademics)),
        !.noveltyTiles = Item(JSONstringify(<<>>)),
        !.favorites = Item(JSONstringify(<<NameB>>)),
        !.pendingSubmissions = Item(JSONstringify(<<>>))]

InitialStorages == {EmptyStorage, SavedStorage}

\* What fetch('academics.json') resolves to: an empty object or a catalogue.
SeedData ==
    <<[key |-> <<"b">>,
       rec |-> [name |-> NameB, bio |-> <<"s", "e", "e", "d">>, taxonomies |-> NoTaxonomies,
                papers |-> <<>>, events |-> <<>>, connections |-> <<NameA>>]],
      [key |-> <<"a", "-", "b">>,
       rec |-> [name |-> NameAB, bio |-> <<>>, taxonomies |-> NoTaxonomies,
                papers |-> <<>>, events |-> <<>>, connections |-> <<>>]]>>

SeedDatasets == {<<>>, SeedData}

\* Texts given to importFromJSON: text that does not parse, an object
\* without academics, a catalogue in the documented format, and a catalogue
\* with a key that is not the normalized name and a record without a name.
ImportedData(has, acads, hasTax, tax) ==
    [hasAcademics |-> has, academics |-> acads,
     hasTaxonomyCategories |-> hasTax, taxonomyCategories |-> tax]

ImportTexts ==
    { Garbage,
      JSONstringify(ImportedData(FALSE, <<>>, FALSE, DefaultTaxonomyCategories)),
      JSONstringify(ImportedData(TRUE, SeedData, TRUE, [era |-> <<"Modern">>])),
      JSONstringify(ImportedData(TRUE,
          <<[key |-> <<"x">>,
             rec |-> [name |-> NameA, bio |-> <<>>, taxonomies |-> NoTaxonomies,
                      papers |-> <<>>, events |-> <<>>, connections |-> <<>>]],
            [key |-> <<"y">>,
             rec |-> [name |-> Undefined, bio |-> <<>>, taxonomies |-> NoTaxonomies,
                      papers |-> <<>>, events |-> <<>>, connections |-> <<>>]]>>,
          FALSE, DefaultTaxonomyCategories)) }

\* A fetched catalogue for the query engine.  The first key is not the
\* normalized name and the last key is the normalized name of another
\* record; BB and BA hold the query b at the same place and come in the
\* order that is not the alphabet's; the record named B comes last; one
\* connection (Z) names nobody; one category (era) has no value.
NameBB == <<"B", "B">>
NameBA == <<"B", "A">>
NameAB2 == <<"A", "B">>
NameZ == <<"Z">>

QueryData ==
    <<[key |-> <<"x">>,
       rec |-> [name |-> NameBB, bio |-> <<>>, taxonomies |-> [discipline |-> <<<<"P">>>>],
                papers |-> <<>>, events |-> <<>>, connections |-> <<NameB>>]],
      [key |-> <<"b", "a">>,
       rec |-> [name |-> NameBA, bio |-> <<>>,
                taxonomies |-> [discipline |-> <<<<"S">>, <<"P", "M">>>>, era |-> <<>>],
                papers |-> <<>>, events |-> <<>>, connections |-> <<NameBB, NameZ>>]],
      [key |-> <<"a", "b">>,
       rec |-> [name |-> NameAB2, bio |-> <<>>, taxonomies |-> NoTaxonomies,
                papers |-> <<>>, events |-> <<>>, connections |-> <<NameAB2>>]],
      [key |-> <<"a">>,
       rec |-> [name |-> NameB, bio |-> <<>>, taxonomies |-> [era |-> <<<<"M">>>>],
                papers |-> <<>>, events |-> <<>>, connections |-> <<>>]]>>

\* A fetched catalogue with a record that has no name and names another.
NamelessData ==
    <<[key |-> <<"a">>,
       rec |-> [name |-> NameA, bio |-> <<>>, taxonomies |-> NoTaxonomies,
                papers |-> <<>>, events |-> <<>>, connections |-> <<NameB>>]],
      [key |-> <<"y">>,
       rec |-> [name |-> Undefined, bio |-> <<>>, taxonomies |-> NoTaxonomies,
                papers |-> <<>>, events |-> <<>>, connections |-> <<NameA>>]]>>

\* What fetch('academics.json') resolves to in the sessions that query: one
\* of the catalogues above, or a JSON value that is not an object.
FetchedDatasets == {QueryData, NamelessData, StringData}

\* Names asked of getAcademic and getAcademicsByConnection.
QueryNames == {<<>>, NameA, NameB, NameBB, <<"b", "!">>, NameZ}

Criteria(name, fields) == [name |-> name, fields |-> fields]

\* Criteria given to searchAcademics: none, a name, a category, both, two
\* categories.
SearchCriteria ==
    { Criteria(<<>>, NoTaxonomies),
      Criteria(<<"b">>, NoTaxonomies),
      Criteria(<<"B", "a">>, NoTaxonomies),
      Criteria(<<>>, [discipline |-> <<"p">>]),
      Criteria(<<>>, [era |-> <<"M">>]),
      Criteria(<<"b">>, [discipline |-> <<"P", "M", "S">>]),
      Criteria(<<>>, [discipline |-> <<"s">>, era |-> <<"m">>, theme |-> <<>>]) }

\* Limits given to getRecentNoveltyTiles.
TileLimits == {0, 1, 10}

\* ------------------------------------------------------------------ state

VARIABLES
    academics,              \* this.academics
    noveltyTiles,           \* this.noveltyTiles
    favorites,              \* this.favorites
    pendingSubmissions,     \* this.pendingSubmissions
    taxonomyCategories,     \* this.taxonomyCategories
    localStorageSupported,  \* this.localStorageSupported
    ls,                     \* the localStorage slots of the page
    quota,                  \* the setItem calls the browser refuses this session
    seedFetch,              \* the fetch of _initializeDefaultData
    domFetch,               \* the DOMContentLoaded handler and its fetch
    clock,                  \* the time new Date() gives: calls so far
    calls,                  \* calls from the page still to explore
    search,                 \* the call of DeepSearchAPI.search in progress
    stream,                 \* the call of DeepSearchAPI.handleStream in progress
    last                    \* the last call: op, arg, ret, and the store before it

vars == <<academics, noveltyTiles, favorites, pendingSubmissions,
          taxonomyCategories, localStorageSupported, ls, quota,
          seedFetch, domFetch, clock, calls, search, stream, last>>

\* No search and no stream: the sessions where the page runs no deep search.
NoSearch == [pc |-> "none"]

NoStream == [pc |-> "none"]

Store ==
    [academics |-> academics, noveltyTiles |-> noveltyTiles,
     favorites |-> favorites, pendingSubmissions |-> pendingSubmissions,
     taxonomyCategories |-> taxonomyCategories,
     localStorageSupported |-> localStorageSupported, ls |-> ls]

Commit(S) ==
    /\ academics' = S.academics
    /\ noveltyTiles' = S.noveltyTiles
    /\ favorites' = S.favorites
    /\ pendingSubmissions' = S.pendingSubmissions
    /\ taxonomyCategories' = S.taxonomyCategories
    /\ localStorageSupported' = S.localStorageSupported
    /\ ls' = S.ls

Called(op, arg, ret) ==
    last' = [op |-> op, arg |-> arg, ret |-> ret, pre |-> Store]

\* _loadFromLocalStorage with one try around the four slots: the first slot
\* that does not parse ends the load.
_loadFromLocalStorageOneTry(S) ==
    LET parsed(slot) == JSONparse(slot.text)
        usable(slot) == slot.present /\ ~JSONparseThrows(slot.text)
        bad(slot) == slot.present /\ JSONparseThrows(slot.text)
        isArray(slot) == usable(slot) /\ ~typeofNumber(slot.text)
        loadedData == /\ usable(S.ls.academics)
                      /\ ~typeofNumber(S.ls.academics.text)
                      /\ typeofObject(parsed(S.ls.academics))
                      /\ Len(parsed(S.ls.academics)) > 0
        tilesReached == ~bad(S.ls.academics)
        favoritesReached == tilesReached /\ ~bad(S.ls.noveltyTiles)
        pendingReached == favoritesReached /\ ~bad(S.ls.favorites)
    IN  [S |-> [S EXCEPT
                  !.academics = IF loadedData THEN parsed(S.ls.academics) ELSE @,
                  !.noveltyTiles = IF tilesReached /\ isArray(S.ls.noveltyTiles)
                                   THEN parsed(S.ls.noveltyTiles) ELSE @,
                  !.favorites = IF favoritesReached /\ isArray(S.ls.favorites)
                                THEN parsed(S.ls.favorites) ELSE @,
                  !.pendingSubmissions =
                      IF pendingReached /\ isArray(S.ls.pendingSubmissions)
                      THEN parsed(S.ls.pendingSubmissions) ELSE @],
         ret |-> loadedData /\ pendingReached /\ ~bad(S.ls.pendingSubmissions)]

\* _loadFromLocalStorage: each slot is parsed in its own try.  For the texts
\* of this model a parsed value that is not a number is an object where a
\* catalogue is written and an array where a list is written.
_loadFromLocalStorage(S) ==
    LET parsed(slot) == JSONparse(slot.text)
        usable(slot) == slot.present /\ ~JSONparseThrows(slot.text)
        isArray(slot) == usable(slot) /\ ~typeofNumber(slot.text)
        loadedData == /\ usable(S.ls.academics)
                      /\ ~typeofNumber(S.ls.academics.text)
                      /\ typeofObject(parsed(S.ls.academics))
                      /\ Len(parsed(S.ls.academics)) > 0
    IN  [S |-> [S EXCEPT
                  !.academics = IF loadedData THEN parsed(S.ls.academics) ELSE @,
                  !.noveltyTiles = IF isArray(S.ls.noveltyTiles)
                                   THEN parsed(S.ls.noveltyTiles) ELSE @,
                  !.favorites = IF isArray(S.ls.favorites)
                                THEN parsed(S.ls.favorites) ELSE @,
                  !.pendingSubmissions = IF isArray(S.ls.pendingSubmissions)
                                         THEN parsed(S.ls.pendingSubmissions) ELSE @],
         ret |-> loadedData]

\* The constructor with _initializeData: the store, and whether
\* _initializeDefaultData ran and left its fetch pending.
Constructed(supported, storage, q) ==
    LET S0 == [academics |-> <<>>, noveltyTiles |-> <<>>, favorites |-> <<>>,
               pendingSubmissions |-> <<>>,
               taxonomyCategories |-> DefaultTaxonomyCategories,
               localStorageSupported |-> supported, ls |-> storage]
        loaded == _loadFromLocalStorage(S0)
    IN  IF supported
        THEN IF ~loaded.ret \/ Len(loaded.S.academics) = 0
             THEN [S |-> saveToLocalStorage(
                             [loaded.S EXCEPT !.academics = DefaultData], q).S,
                   defaults |-> TRUE]
             ELSE [S |-> loaded.S, defaults |-> FALSE]
        ELSE [S |-> [S0 EXCEPT !.academics = DefaultData], defaults |-> TRUE]

Init ==
    \E supported \in BOOLEAN, storage \in InitialStorages, q \in QuotaModes :
        LET c == Constructed(supported, storage, q)
        IN  /\ (~supported => storage = EmptyStorage /\ q = "ok")
            /\ academics = c.S.academics
            /\ noveltyTiles = c.S.noveltyTiles
            /\ favorites = c.S.favorites
            /\ pendingSubmissions = c.S.pendingSubmissions
            /\ taxonomyCategories = c.S.taxonomyCategories
            /\ localStorageSupported = supported
            /\ ls = c.S.ls
            /\ quota = q
            /\ search = NoSearch
            /\ stream = NoStream
            /\ seedFetch = IF c.defaults THEN "pending" ELSE "none"
            /\ domFetch = "waiting"
            /\ clock = 1
            /\ calls = MaxOps
            /\ last = [op |-> "constructor", arg |-> <<>>, ret |-> TRUE,
                       pre |-> c.S]

\* ---------------------------------------------------------------- actions

\* A call from the page: the page's handlers are wired once the document has
\* loaded, and each call reads a later time.
Tick ==
    /\ domFetch # "waiting"
    /\ calls > 0
    /\ calls' = calls - 1
    /\ clock' = clock + 1

\* A caller (the contribution form, the admin page) adds a record.
AddOrUpdateAcademic(academic) ==
    LET r == addOrUpdateAcademic(Store, academic, clock, quota)
    IN  /\ Tick
        /\ Commit(r.S)
        /\ Called("addOrUpdateAcademic", academic, r.ret)
        /\ UNCHANGED <<search, stream, quota, seedFetch, domFetch>>

\* The user confirms the record a deep search extracted.
EnrichDatabase(academicData) ==
    LET r == enrichDatabase(Store, academicData, clock, quota)
    IN  /\ Tick
        /\ Commit(r.S)
        /\ Called("enrichDatabase", academicData, r.ret)
        /\ UNCHANGED <<search, stream, quota, seedFetch, domFetch>>

ImportFromJSON(jsonData) ==
    LET r == importFromJSON(Store, jsonData, clock, quota)
    IN  /\ Tick
        /\ Commit(r.S)
        /\ Called("importFromJSON", jsonData, r.ret)
        /\ UNCHANGED <<search, stream, quota, seedFetch, domFetch>>

ClearDatabase ==
    LET r == clearDatabase(Store, quota)
    IN  /\ Tick
        /\ Commit(r.S)
        /\ Called("clearDatabase", <<>>, r.ret)
        /\ UNCHANGED <<search, stream, quota, seedFetch, domFetch>>

AddToFavorites(academicName) ==
    LET r == addToFavorites(Store, academicName, quota)
    IN  /\ Tick
        /\ Commit(r.S)
        /\ Called("addToFavorites", academicName, r.ret)
        /\ UNCHANGED <<search, stream, quota, seedFetch, domFetch>>

RemoveFromFavorites(academicName) ==
    LET r == removeFromFavorites(Store, academicName, quota)
    IN  /\ Tick
        /\ Commit(r.S)
        /\ Called("removeFromFavorites", academicName, r.ret)
        /\ UNCHANGED <<search, stream, quota, seedFetch, domFetch>>

\* A timer that saves only a catalogue the academics slot does not hold.
AutoSaveIfChanged ==
    /\ localStorageSupported
    /\ Tick
    /\ IF ls.academics = Item(JSONstringify(academics))
       THEN Commit(Store) /\ Called("autoSave", <<>>, TRUE)
       ELSE /\ Commit(saveToLocalStorage(Store, quota).S)
            /\ Called("autoSave", <<>>, saveToLocalStorage(Store, quota).ret)
    /\ UNCHANGED <<search, stream, quota, seedFetch, domFetch>>

\* The 5-minute timer of _setupAutoSave, set only with localStorage.
AutoSave ==
    /\ localStorageSupported
    /\ Tick
    /\ Commit(saveToLocalStorage(Store, quota).S)
    /\ Called("autoSave", <<>>, saveToLocalStorage(Store, quota).ret)
    /\ UNCHANGED <<search, stream, quota, seedFetch, domFetch>>

\* A callback that adds the records of the dataset to the catalogue it
\* finds instead of putting the dataset in its place.
SeedFetchMerged(data) ==
    LET merged == [Store EXCEPT
                     !.academics = @ \o SelectSeq(data,
                         LAMBDA e : ~HasKey(academics, e.key))]
    IN  /\ seedFetch = "pending"
        /\ Len(data) > 0
        /\ seedFetch' = "done"
        /\ Commit(saveToLocalStorage(merged, quota).S)
        /\ Called("seedFetch", data, saveToLocalStorage(merged, quota).ret)
        /\ UNCHANGED <<search, stream, quota, domFetch, clock, calls>>

\* The then-callback of the fetch of _initializeDefaultData (lines 106-112)
\* with a dataset that has keys.
SeedFetchResolved(data) ==
    /\ seedFetch = "pending"
    /\ Len(data) > 0
    /\ seedFetch' = "done"
    /\ Commit(saveToLocalStorage([Store EXCEPT !.academics = data], quota).S)
    /\ Called("seedFetch", data,
              saveToLocalStorage([Store EXCEPT !.academics = data], quota).ret)
    /\ UNCHANGED <<search, stream, quota, domFetch, clock, calls>>

\* The same callback with an empty dataset, or the catch of lines 113-115:
\* the store is not touched.
SeedFetchUnused ==
    /\ seedFetch = "pending"
    /\ seedFetch' = "done"
    /\ UNCHANGED <<search, stream,
                   academics, noveltyTiles, favorites, pendingSubmissions,
                   taxonomyCategories, localStorageSupported, ls, quota,
                   domFetch, clock, calls, last>>

\* The DOMContentLoaded handler (lines 911-944) fetches when the catalogue
\* has at most one record.
DOMContentLoaded ==
    /\ domFetch = "waiting"
    /\ domFetch' = IF Len(academics) <= 1 THEN "pending" ELSE "done"
    /\ UNCHANGED <<search, stream,
                   academics, noveltyTiles, favorites, pendingSubmissions,
                   taxonomyCategories, localStorageSupported, ls, quota,
                   seedFetch, clock, calls, last>>

\* The then-callback of that fetch (lines 917-936) with a dataset that has
\* keys.
DomFetchResolved(data) ==
    /\ domFetch = "pending"
    /\ Len(data) > 0
    /\ domFetch' = "done"
    /\ Commit(addNoveltyTile(
                  saveToLocalStorage([Store EXCEPT !.academics = data], quota).S,
                  Tile("Database Loaded", <<>>, <<>>, "system", clock),
                  clock, quota).S)
    /\ Called("domFetch", data,
              saveToLocalStorage([Store EXCEPT !.academics = data], quota).ret)
    /\ UNCHANGED <<search, stream, quota, seedFetch, clock, calls>>

\* The same callback with an empty dataset, or the catch of lines 937-939.
DomFetchUnused ==
    /\ domFetch = "pending"
    /\ domFetch' = "done"
    /\ UNCHANGED <<search, stream,
                   academics, noveltyTiles, favorites, pendingSubmissions,
                   taxonomyCategories, localStorageSupported, ls, quota,
                   seedFetch, clock, calls, last>>

\* A read by the page: the store is given the value the method leaves,
\* and no time passes.
Query(op, arg, r) ==
    /\ domFetch # "waiting"
    /\ Commit(r.S)
    /\ Called(op, arg, r.ret)
    /\ UNCHANGED <<search, stream, quota, seedFetch, domFetch, clock, calls>>

GetAcademic(name) ==
    Query("getAcademic", name, [S |-> Store, ret |-> getAcademic(Store, name)])

SearchAcademics(criteria) ==
    Query("searchAcademics", criteria, searchAcademics(Store, criteria))

GetAcademicsByConnection(academicName) ==
    Query("getAcademicsByConnection", academicName,
          getAcademicsByConnection(Store, academicName))

GetNetworkData == Query("getNetworkData", <<>>, getNetworkData(Store))

GetRecentNoveltyTiles(limit) ==
    Query("getRecentNoveltyTiles", limit, getRecentNoveltyTiles(Store, limit))

\* The user saves the export to a file.
ExportToJSON == Query("exportToJSON", <<>>, exportToJSON(Store, clock))

\* The user imports the file just exported.
ImportExported ==
    /\ last.op = "exportToJSON"
    /\ ImportFromJSON(last.ret)

Next ==
    \/ \E academic \in Candidates : AddOrUpdateAcademic(academic)
    \/ \E academicData \in Candidates : EnrichDatabase(academicData)
    \/ \E jsonData \in ImportTexts : ImportFromJSON(jsonData)
    \/ ClearDatabase
    \/ \E academicName \in {<<>>, NameA, NameB} : AddToFavorites(academicName)
    \/ \E academicName \in {<<>>, NameB} : RemoveFromFavorites(academicName)
    \/ AutoSave
    \/ \E data \in SeedDatasets : SeedFetchResolved(data)
    \/ SeedFetchUnused
    \/ DOMContentLoaded
    \/ \E data \in SeedDatasets : DomFetchResolved(data)
    \/ DomFetchUnused

Spec == Init /\ [][Next]_vars

\* Sequences of addOrUpdateAcademic calls from the store clearDatabase leaves.
InitCleared ==
    \E supported \in BOOLEAN, q \in QuotaModes :
        LET c == clearDatabase(Constructed(supported, EmptyStorage, q).S, q)
        IN  /\ (~supported => q = "ok")
            /\ c.ret
            /\ academics = c.S.academics
            /\ noveltyTiles = c.S.noveltyTiles
            /\ favorites = c.S.favorites
            /\ pendingSubmissions = c.S.pendingSubmissions
            /\ taxonomyCategories = c.S.taxonomyCategories
            /\ localStorageSupported = supported
            /\ ls = c.S.ls
            /\ quota = q
            /\ search = NoSearch
            /\ stream = NoStream
            /\ seedFetch = "done"
            /\ domFetch = "done"
            /\ clock = 1
            /\ calls = MaxMergeOps
            /\ last = [op |-> "clearDatabase", arg |-> <<>>, ret |-> TRUE,
                       pre |-> c.S]

NextMerge == \E academic \in Candidates : AddOrUpdateAcademic(academic)

SpecMerge == InitCleared /\ [][NextMerge]_vars

\* Sessions in which the page loads its catalogue and then reads it,
\* exports it and imports the export.
InitQuery ==
    \E supported \in BOOLEAN, storage \in InitialStorages, q \in QuotaModes :
        LET c == Constructed(supported, storage, q)
        IN  /\ (~supported => storage = EmptyStorage /\ q = "ok")
            /\ academics = c.S.academics
            /\ noveltyTiles = c.S.noveltyTiles
            /\ favorites = c.S.favorites
            /\ pendingSubmissions = c.S.pendingSubmissions
            /\ taxonomyCategories = c.S.taxonomyCategories
            /\ localStorageSupported = supported
            /\ ls = c.S.ls
            /\ quota = q
            /\ search = NoSearch
            /\ stream = NoStream
            /\ seedFetch = IF c.defaults THEN "pending" ELSE "none"
            /\ domFetch = "waiting"
            /\ clock = 1
            /\ calls = MaxQueryOps
            /\ last = [op |-> "constructor", arg |-> <<>>, ret |-> TRUE,
                       pre |-> c.S]

NextQuery ==
    \/ \E data \in FetchedDatasets : SeedFetchResolved(data)
    \/ SeedFetchUnused
    \/ DOMContentLoaded
    \/ \E data \in FetchedDatasets : DomFetchResolved(data)
    \/ DomFetchUnused
    \/ \E name \in QueryNames : GetAcademic(name)
    \/ \E criteria \in SearchCriteria : SearchAcademics(criteria)
    \/ \E academicName \in QueryNames : GetAcademicsByConnection(academicName)
    \/ GetNetworkData
    \/ \E limit \in TileLimits : GetRecentNoveltyTiles(limit)
    \/ ExportToJSON
    \/ ImportExported

SpecQuery == InitQuery /\ [][NextQuery]_vars

\* Sessions with one deep search: the page extracts a record from the text
\* the search streamed and, when there is one, the user saves it.
InitExtract ==
    \E supported \in BOOLEAN, storage \in InitialStorages, q \in QuotaModes :
        LET c == Constructed(supported, storage, q)
        IN  /\ (~supported => storage = EmptyStorage /\ q = "ok")
            /\ academics = c.S.academics
            /\ noveltyTiles = c.S.noveltyTiles
            /\ favorites = c.S.favorites
            /\ pendingSubmissions = c.S.pendingSubmissions
            /\ taxonomyCategories = c.S.taxonomyCategories
            /\ localStorageSupported = supported
            /\ ls = c.S.ls
            /\ quota = q
            /\ search = NoSearch
            /\ stream = NoStream
            /\ seedFetch = "done"
            /\ domFetch = "done"
            /\ clock = 1
            /\ calls = MaxOps
            /\ last = [op |-> "constructor", arg |-> <<>>, ret |-> TRUE,
                       pre |-> c.S]

\* handleStream at the end of the stream: the text is handed to
\* extractAcademicData.
ExtractAcademicData(fullText) ==
    /\ last.op = "constructor"
    /\ Called("extractAcademicData", fullText, extractAcademicData(fullText))
    /\ UNCHANGED <<search, stream,
                   academics, noveltyTiles, favorites, pendingSubmissions,
                   taxonomyCategories, localStorageSupported, ls, quota,
                   seedFetch, domFetch, clock, calls>>

\* The click on the save button, which is there when a record was extracted.
SaveExtracted ==
    LET academicData == last.ret.academic
        r == enrichDatabase(Store, academicData, clock, quota)
    IN  /\ last.op = "extractAcademicData"
        /\ last.ret.found /\ Truthy(academicData.name)
        /\ Tick
        /\ Commit(r.S)
        /\ Called("enrichDatabase", academicData, r.ret)
        /\ UNCHANGED <<search, stream, quota, seedFetch, domFetch>>

NextExtract ==
    \/ \E fullText \in ExtractTexts : ExtractAcademicData(fullText)
    \/ SaveExtracted

SpecExtract == InitExtract /\ [][NextExtract]_vars

\* A catalogue file whose key is a short name and not the normalized name
\* of its record.
ShortKeyData ==
    <<[key |-> <<"f">>,
       rec |-> [name |-> NameB, bio |-> <<>>, taxonomies |-> NoTaxonomies,
                papers |-> <<>>, events |-> <<>>, connections |-> <<>>]]>>

\* What fetch('academics.json') resolves to in the sessions that enrich.
EnrichDatasets == {<<>>, SeedData, ShortKeyData}

\* Sessions in which the page loads its catalogue and the user saves the
\* record of a deep search.
InitEnrich ==
    \E supported \in BOOLEAN, storage \in InitialStorages, q \in QuotaModes :
        LET c == Constructed(supported, storage, q)
        IN  /\ (~supported => storage = EmptyStorage /\ q = "ok")
            /\ academics = c.S.academics
            /\ noveltyTiles = c.S.noveltyTiles
            /\ favorites = c.S.favorites
            /\ pendingSubmissions = c.S.pendingSubmissions
            /\ taxonomyCategories = c.S.taxonomyCategories
            /\ localStorageSupported = supported
            /\ ls = c.S.ls
            /\ quota = q
            /\ search = NoSearch
            /\ stream = NoStream
            /\ seedFetch = IF c.defaults THEN "pending" ELSE "none"
            /\ domFetch = "waiting"
            /\ clock = 1
            /\ calls = MaxOps
            /\ last = [op |-> "constructor", arg |-> <<>>, ret |-> TRUE,
                       pre |-> c.S]

NextEnrich ==
    \/ \E data \in EnrichDatasets : SeedFetchResolved(data)
    \/ SeedFetchUnused
    \/ DOMContentLoaded
    \/ \E data \in EnrichDatasets : DomFetchResolved(data)
    \/ DomFetchUnused
    \/ \E academicData \in Candidates : EnrichDatabase(academicData)

SpecEnrich == InitEnrich /\ [][NextEnrich]_vars

\* The tiles an earlier session left in the slot: more than the quota
\* fallback keeps, the newest first.
ManyTiles ==
    [i \in 1..(TrimmedTiles + 2) |->
        Tile("New Academic", NameA, <<>>, "academic", 0 - i)]

ManyTilesStorage ==
    [SavedStorage EXCEPT !.noveltyTiles = Item(JSONstringify(ManyTiles))]

\* Sessions in which the page loads its catalogue and saves it: by the
\* timer, by the fetch callbacks and by addOrUpdateAcademic.
InitSave ==
    \E supported \in BOOLEAN, q \in SaveQuotaModes,
       storage \in InitialStorages \cup {ManyTilesStorage} :
        LET c == Constructed(supported, storage, q)
        IN  /\ (~supported => storage = EmptyStorage /\ q = "ok")
            /\ academics = c.S.academics
            /\ noveltyTiles = c.S.noveltyTiles
            /\ favorites = c.S.favorites
            /\ pendingSubmissions = c.S.pendingSubmissions
            /\ taxonomyCategories = c.S.taxonomyCategories
            /\ localStorageSupported = supported
            /\ ls = c.S.ls
            /\ quota = q
            /\ search = NoSearch
            /\ stream = NoStream
            /\ seedFetch = IF c.defaults THEN "pending" ELSE "none"
            /\ domFetch = "waiting"
            /\ clock = 1
            /\ calls = MaxOps
            /\ last = [op |-> "constructor", arg |-> <<>>, ret |-> TRUE,
                       pre |-> c.S]

NextSave ==
    \/ \E data \in FetchedDatasets \cup SeedDatasets : SeedFetchResolved(data)
    \/ SeedFetchUnused
    \/ DOMContentLoaded
    \/ \E data \in FetchedDatasets \cup SeedDatasets : DomFetchResolved(data)
    \/ DomFetchUnused
    \/ \E academic \in Candidates : AddOrUpdateAcademic(academic)
    \/ AutoSave

SpecSave == InitSave /\ [][NextSave]_vars

\* What an earlier session, or another script of the origin, left in each
\* slot: nothing, text that does not parse, a number, or a value of the
\* kind the program writes.
SavedTile == Tile("New Academic", NameA, <<>>, "academic", 0 - 1)
SavedSubmission == [academicName |-> NameA, type |-> "paper"]

AcademicsSlots ==
    {Null, Item(Garbage), Item(NumberText), Item(JSONstringify(<<>>)),
     Item(JSONstringify(StringData)), Item(JSONstringify(DefaultData)),
     Item(JSONstringify(SavedAcademics))}
NoveltyTilesSlots ==
    {Null, Item(Garbage), Item(NumberText), Item(JSONstringify(<<SavedTile>>))}
FavoritesSlots ==
    {Null, Item(Garbage), Item(NumberText), Item(JSONstringify(<<NameB>>))}
PendingSubmissionsSlots ==
    {Null, Item(Garbage), Item(NumberText),
     Item(JSONstringify(<<SavedSubmission>>))}

LoadStorages ==
    {[EmptyStorage EXCEPT !.academics = a, !.noveltyTiles = t,
                          !.favorites = f, !.pendingSubmissions = p] :
        a \in AcademicsSlots, t \in NoveltyTilesSlots,
        f \in FavoritesSlots, p \in PendingSubmissionsSlots}

\* The page before its script runs: the fields as lines 7-21 set them and
\* the localStorage of the origin.
InitLoad ==
    \E supported \in BOOLEAN, storage \in LoadStorages, q \in QuotaModes :
        /\ (~supported => storage = EmptyStorage /\ q = "ok")
        /\ academics = <<>>
        /\ noveltyTiles = <<>>
        /\ favorites = <<>>
        /\ pendingSubmissions = <<>>
        /\ taxonomyCategories = DefaultTaxonomyCategories
        /\ localStorageSupported = supported
        /\ ls = storage
        /\ quota = q
        /\ search = NoSearch
        /\ stream = NoStream
        /\ seedFetch = "none"
        /\ domFetch = "script"
        /\ clock = 0
        /\ calls = 0
        /\ last = [op |-> "none", arg |-> <<>>, ret |-> FALSE, pre |-> <<>>]

\* new DatabaseManager() (line 905): the value returned is what
\* _loadFromLocalStorage gave _initializeData.
Construct ==
    LET c == Constructed(localStorageSupported, ls, quota)
    IN  /\ domFetch = "script"
        /\ domFetch' = "waiting"
        /\ seedFetch' = IF c.defaults THEN "pending" ELSE "none"
        /\ clock' = 1
        /\ calls' = MaxOps
        /\ Commit(c.S)
        /\ Called("constructor", <<>>,
                  localStorageSupported /\ _loadFromLocalStorage(Store).ret)
        /\ UNCHANGED <<search, stream, quota>>

NextLoad ==
    \/ Construct
    \/ \E data \in SeedDatasets : SeedFetchResolved(data)
    \/ SeedFetchUnused
    \/ DOMContentLoaded
    \/ \E data \in SeedDatasets : DomFetchResolved(data)
    \/ DomFetchUnused
    \/ AutoSave

SpecLoad == InitLoad /\ [][NextLoad]_vars

\* A caller adds a tile to the log.
AddNoveltyTile(tile) ==
    LET r == addNoveltyTile(Store, tile, clock, quota)
    IN  /\ Tick
        /\ Commit(r.S)
        /\ Called("addNoveltyTile", tile, r.ret)
        /\ UNCHANGED <<search, stream, quota, seedFetch, domFetch>>

\* The store of a first visit after k calls of addNoveltyTile with tiles
\* that bring no date, the i-th at time i: the list holds the newest
\* first, 100 of them at most, and 20 at most where every save meets a
\* quota error and trims; the slot holds what the last accepted write of
\* the tiles left, and the backup slot the catalogue the saves found.
LoggedTiles(k, n) ==
    [i \in 1..n |-> Tile("New Academic", NameA, <<>>, "academic", k + 1 - i)]

AfterAdds(k, supported, q) ==
    LET base == Constructed(supported, EmptyStorage, q).S
        n == IF supported /\ q # "ok"
             THEN Min(k, TrimmedTiles) ELSE Min(k, MemoryTiles)
        tiles == LoggedTiles(k, n)
        slot == IF ~supported \/ k = 0 THEN base.ls.noveltyTiles
                ELSE IF q = "ok"
                     THEN Item(JSONstringify(slice(tiles, PersistedTiles)))
                ELSE IF q = "acadThenOk" /\ k > TrimmedTiles
                     THEN Item(JSONstringify(tiles))
                ELSE base.ls.noveltyTiles
        backup == IF supported /\ k > 0 /\ q # "acadThenFail"
                  THEN base.ls.academics ELSE base.ls.backup
    IN  [base EXCEPT !.noveltyTiles = tiles, !.ls.noveltyTiles = slot,
                     !.ls.backup = backup]

\* The numbers of earlier calls: around the three limits of the log.
TileCounts ==
    {0, 1, TrimmedTiles, TrimmedTiles + 1, PersistedTiles - 1, PersistedTiles,
     MemoryTiles - 1, MemoryTiles}

\* The tiles given to addNoveltyTile: without a title, without a date, and
\* with a date before every tile of the log.
TileInputs ==
    {Tile(kind, NameB, <<>>, "academic", date) :
        kind \in {"", "New Academic"}, date \in {NoDate, 0 - 1}}

\* Sessions that add tiles to a log of some length.
InitTiles ==
    \E k \in TileCounts, supported \in BOOLEAN, q \in QuotaModes :
        LET S == AfterAdds(k, supported, q)
        IN  /\ (~supported => q = "ok")
            /\ academics = S.academics
            /\ noveltyTiles = S.noveltyTiles
            /\ favorites = S.favorites
            /\ pendingSubmissions = S.pendingSubmissions
            /\ taxonomyCategories = S.taxonomyCategories
            /\ localStorageSupported = supported
            /\ ls = S.ls
            /\ quota = q
            /\ search = NoSearch
            /\ stream = NoStream
            /\ seedFetch = "done"
            /\ domFetch = "done"
            /\ clock = k + 1
            /\ calls = MaxOps
            /\ last = [op |-> "constructor", arg |-> <<>>, ret |-> TRUE,
                       pre |-> S]

NextTiles == \E tile \in TileInputs : AddNoveltyTile(tile)

SpecTiles == InitTiles /\ [][NextTiles]_vars

\* ------------------------------------------------------- the text stream

\* The two bytes of U+00E9 in UTF-8, the character they decode to, and the
\* U+FFFD a TextDecoder gives for bytes that are no character.
LeadByte == "C3"

ContinuationByte == "A9"

EAcute == "E9"

ReplacementCharacter == "FFFD"

\* The bytes of a text in UTF-8.
encode(text) ==
    LET n == Len(text)
        wide == {j \in 1..n : text[j] = EAcute}
        start(i) == i + Cardinality({j \in wide : j < i})
        width(i) == IF i \in wide THEN 2 ELSE 1
    IN  [p \in 1..(n + Cardinality(wide)) |->
            LET i == CHOOSE i \in 1..n : start(i) <= p /\ p < start(i) + width(i)
            IN  IF i \notin wide THEN text[i]
                ELSE IF p = start(i) THEN LeadByte ELSE ContinuationByte]

\* decoder.decode(value, { stream: true }): the characters of the bytes the
\* decoder held back followed by value, and the bytes it holds back now, a
\* lead byte whose continuation has not arrived.
decode(held, value) ==
    LET bytes == held \o value
        n == Len(bytes)
        keep == n > 0 /\ bytes[n] = LeadByte
        m == IF keep THEN n - 1 ELSE n
        at(i) == IF bytes[i] = LeadByte
                 THEN IF bytes[i + 1] = ContinuationByte
                      THEN EAcute ELSE ReplacementCharacter
                 ELSE IF bytes[i] = ContinuationByte
                 THEN IF i > 1 /\ bytes[i - 1] = LeadByte
                      THEN "" ELSE ReplacementCharacter
                 ELSE bytes[i]
    IN  [text |-> SelectSeq([i \in 1..m |-> at(i)], LAMBDA c : c # ""),
         held |-> IF keep THEN <<LeadByte>> ELSE <<>>]

\* 'data: '
DataPrefix == <<"d","a","t","a",":"," ">>

\* '[DONE]'
DoneData == <<"[","D","O","N","E","]">>

DeltaDocument ==
    <<"{","\"","c","h","o","i","c","e","s","\"",":","[","{","\"","d","e",
      "l","t","a","\"",":","{","\"","c","o","n","t","e","n","t","\"",":",
      "\"","a","\"","}","}","]","}">>

MessageDocument ==
    <<"{","\"","c","h","o","i","c","e","s","\"",":","[","{","\"","m","e",
      "s","s","a","g","e","\"",":","{","\"","c","o","n","t","e","n","t",
      "\"",":","\"","b","\"","}","}","]","}">>

ContentDocument ==
    <<"{","\"","c","h","o","i","c","e","s","\"",":","[","{","\"","c","o",
      "n","t","e","n","t","\"",":","\"","c","\"","}","]","}">>

EmptyDeltaDocument ==
    <<"{","\"","c","h","o","i","c","e","s","\"",":","[","{","\"","d","e",
      "l","t","a","\"",":","{","\"","c","o","n","t","e","n","t","\"",":",
      "\"","\"","}",",","\"","m","e","s","s","a","g","e","\"",":","{",
      "\"","c","o","n","t","e","n","t","\"",":","\"","b","\"","}",",",
      "\"","c","o","n","t","e","n","t","\"",":","\"","c","\"","}","]","}">>

DeltaAndMessageDocument ==
    <<"{","\"","c","h","o","i","c","e","s","\"",":","[","{","\"","d","e",
      "l","t","a","\"",":","{","\"","c","o","n","t","e","n","t","\"",":",
      "\"","a","\"","}",",","\"","m","e","s","s","a","g","e","\"",":","{",
      "\"","c","o","n","t","e","n","t","\"",":","\"","b","\"","}","}","]",
      "}">>

NoDeltaContentDocument ==
    <<"{","\"","c","h","o","i","c","e","s","\"",":","[","{","\"","d","e",
      "l","t","a","\"",":","{","}",",","\"","c","o","n","t","e","n","t",
      "\"",":","\"","c","\"","}","]","}">>

AccentDocument ==
    <<"{","\"","c","h","o","i","c","e","s","\"",":","[","{","\"","c","o",
      "n","t","e","n","t","\"",":","\"",EAcute,"\"","}","]","}">>

NoChoiceDocument ==
    <<"{","\"","c","h","o","i","c","e","s","\"",":","[","]","}">>

\* The JSON documents of the data lines below, with the value JSON.parse
\* gives for each: the choices, each with the text at its three paths;
\* JSON.parse throws on any other text.
StreamDocuments ==
    {[text |-> DeltaDocument,
       value |-> [choices |-> <<[delta |-> <<"a">>, message |-> Undefined, content |-> Undefined]>>]],
      [text |-> MessageDocument,
       value |-> [choices |-> <<[delta |-> Undefined, message |-> <<"b">>, content |-> Undefined]>>]],
      [text |-> ContentDocument,
       value |-> [choices |-> <<[delta |-> Undefined, message |-> Undefined, content |-> <<"c">>]>>]],
      [text |-> EmptyDeltaDocument,
       value |-> [choices |-> <<[delta |-> <<>>, message |-> <<"b">>, content |-> <<"c">>]>>]],
      [text |-> DeltaAndMessageDocument,
       value |-> [choices |-> <<[delta |-> <<"a">>, message |-> <<"b">>, content |-> Undefined]>>]],
      [text |-> NoDeltaContentDocument,
       value |-> [choices |-> <<[delta |-> Undefined, message |-> Undefined, content |-> <<"c">>]>>]],
      [text |-> AccentDocument,
       value |-> [choices |-> <<[delta |-> Undefined, message |-> Undefined, content |-> <<EAcute>>]>>]],
      [text |-> NoChoiceDocument,
       value |-> [choices |-> <<>>]] }

\* JSON.parse of the data of a line, as [thrown, value].
JSONparseData(data) ==
    IF \E d \in StreamDocuments : d.text = data
    THEN [thrown |-> FALSE,
          value |-> (CHOOSE d \in StreamDocuments : d.text = data).value]
    ELSE [thrown |-> TRUE, value |-> [choices |-> <<>>]]

\* The chain with message.content looked at first.
chunkContentMessageFirst(parsed) ==
    IF parsed.choices = <<>> THEN <<>>
    ELSE LET choice == parsed.choices[1]
         IN  IF Truthy(choice.message) THEN choice.message
             ELSE IF Truthy(choice.delta) THEN choice.delta
             ELSE IF Truthy(choice.content) THEN choice.content
             ELSE <<>>

\* The text of a parsed chunk (lines 296-307): '' when there is no
\* choices[0], else the first of delta.content, message.content and content
\* that is truthy.
chunkContent(parsed) ==
    IF parsed.choices = <<>> THEN <<>>
    ELSE LET choice == parsed.choices[1]
         IN  IF Truthy(choice.delta) THEN choice.delta
             ELSE IF Truthy(choice.message) THEN choice.message
             ELSE IF Truthy(choice.content) THEN choice.content
             ELSE <<>>

\* The body of the loop over the lines (lines 283-320) for one line, on the
\* locals of handleStream: parsed is the log of the data handed to
\* JSON.parse with the text taken from each, callbacks the log of the calls
\* of onChunk, onComplete and onError.
processLine(st, line) ==
    IF ~startsWith(line, DataPrefix) THEN st
    ELSE LET data == SubSeq(line, Len(DataPrefix) + 1, Len(line))
             p == JSONparseData(data)
             content == IF p.thrown THEN <<>> ELSE chunkContent(p.value)
             seen == [st EXCEPT !.parsed = Append(@, [data |-> data,
                                                       thrown |-> p.thrown,
                                                       content |-> content])]
         IN  IF data = DoneData THEN st
             ELSE IF content = <<>> THEN seen
             ELSE [seen EXCEPT !.resultText = @ \o content,
                               !.callbacks = Append(@, [fn |-> "onChunk",
                                                        arg |-> content])]

\* The loop over the lines with one try around it: the first data line that
\* does not parse ends the loop.
RECURSIVE processLinesOneTry(_, _)
processLinesOneTry(st, lines) ==
    IF lines = <<>> THEN st
    ELSE LET line == Head(lines)
             data == SubSeq(line, Len(DataPrefix) + 1, Len(line))
             throws == /\ startsWith(line, DataPrefix)
                       /\ data # DoneData
                       /\ JSONparseData(data).thrown
         IN  IF throws THEN processLine(st, line)
             ELSE processLinesOneTry(processLine(st, line), Tail(lines))

\* for (const line of lines)
RECURSIVE processLines(_, _)
processLines(st, lines) ==
    IF lines = <<>> THEN st
    ELSE processLines(processLine(st, Head(lines)), Tail(lines))

\* One turn of the read loop with a value (lines 269-321) where the
\* remainder is not carried: the buffer is split and every piece, the last
\* included, is processed as a line.
readValueNoRemainder(st, value) ==
    LET d == decode(st.held, value)
        lines == SplitLines(st.buffer \o d.text)
    IN  processLines([st EXCEPT !.held = d.held, !.buffer = <<>>,
                                !.read = @ + Len(value)], lines)

\* One turn of the read loop with a value (lines 269-321): the chunk is
\* decoded and appended to the buffer, the buffer is split at the newlines,
\* the last piece stays in the buffer and the others are processed.
readValue(st, value) ==
    LET d == decode(st.held, value)
        lines == SplitLines(st.buffer \o d.text)
    IN  processLines([st EXCEPT !.held = d.held, !.buffer = lines[Len(lines)],
                                !.read = @ + Len(value)],
                     SubSeq(lines, 1, Len(lines) - 1))

\* The end of the stream where onComplete is called before the remainder is
\* processed.
readDoneCompleteFirst(st) ==
    LET completed == [st EXCEPT !.callbacks = Append(@, [fn |-> "onComplete",
                                                         arg |-> st.resultText])]
        rest == IF st.buffer # <<>> THEN processLine(completed, st.buffer)
                ELSE completed
    IN  [rest EXCEPT !.pc = "returned", !.ret = rest.resultText]

\* The turn of the read loop with done (lines 270, 323-362): the remainder
\* is processed as a line, onComplete is called with the text, which is
\* returned.
readDone(st) ==
    LET rest == IF st.buffer # <<>> THEN processLine(st, st.buffer) ELSE st
    IN  [rest EXCEPT !.pc = "returned", !.ret = rest.resultText,
                     !.callbacks = Append(@, [fn |-> "onComplete",
                                              arg |-> rest.resultText])]

\* The message of the error a failed read rejects with.
ReadError == <<"n","e","t","w","o","r","k"," ","e","r","r","o","r">>

\* A rejected reader.read() (lines 364-376): onError is called with the
\* error, which is thrown again.
readFailed(st) ==
    [st EXCEPT !.pc = "threw", !.ret = ReadError,
               !.callbacks = Append(@, [fn |-> "onError", arg |-> ReadError])]

\* The line of a document.
DataLine(document) == DataPrefix \o document

\* A data line cut before its end.
MalformedLine == SubSeq(DataLine(DeltaDocument), 1, 30)

\* A comment line of the event stream.
CommentLine == <<":"," ","p","i","n","g">>

\* lines.join('\n')
RECURSIVE join(_)
join(lines) ==
    IF lines = <<>> THEN <<>>
    ELSE IF Len(lines) = 1 THEN lines[1]
    ELSE lines[1] \o <<"\n">> \o join(Tail(lines))

\* The texts the provider streams, as lines; a text whose last line is
\* empty ends with a newline.
StreamTexts ==
    { <<DataLine(DeltaDocument), DataLine(MessageDocument),
        DataLine(ContentDocument), <<>>>>,
      <<DataLine(EmptyDeltaDocument), DataLine(DeltaAndMessageDocument),
        DataLine(NoDeltaContentDocument)>>,
      <<DataLine(DeltaDocument), MalformedLine, DataLine(ContentDocument), <<>>>>,
      <<MalformedLine, DataLine(AccentDocument)>>,
      <<DataLine(DeltaDocument), DataLine(DoneData), DataLine(ContentDocument),
        <<>>>>,
      <<DataLine(MessageDocument), <<>>, DataLine(DoneData)>>,
      <<CommentLine, <<>>, DataLine(NoChoiceDocument), DataLine(ContentDocument),
        <<>>>>,
      <<DataLine(DeltaDocument), DataLine(AccentDocument), MalformedLine>> }

\* The bodies of the responses.
StreamBodies == {encode(join(lines)) : lines \in StreamTexts}

\* handleStream called with the body of a response: nothing read yet.
Handling(body) ==
    [pc |-> "reading", body |-> body, read |-> 0, held |-> <<>>,
     buffer |-> <<>>, resultText |-> <<>>, parsed |-> <<>>,
     callbacks |-> <<>>, ret |-> <<>>]

\* Sessions with one deep search whose response is being streamed.
InitStream ==
    \E body \in StreamBodies :
        LET c == Constructed(TRUE, EmptyStorage, "ok")
        IN  /\ academics = c.S.academics
            /\ noveltyTiles = c.S.noveltyTiles
            /\ favorites = c.S.favorites
            /\ pendingSubmissions = c.S.pendingSubmissions
            /\ taxonomyCategories = c.S.taxonomyCategories
            /\ localStorageSupported = TRUE
            /\ ls = c.S.ls
            /\ quota = "ok"
            /\ search = NoSearch
            /\ stream = Handling(body)
            /\ seedFetch = "done"
            /\ domFetch = "done"
            /\ clock = 1
            /\ calls = MaxOps
            /\ last = [op |-> "handleStream", arg |-> body, ret |-> <<>>,
                       pre |-> c.S]

Idle ==
    UNCHANGED <<academics, noveltyTiles, favorites, pendingSubmissions,
                taxonomyCategories, localStorageSupported, ls, quota,
                seedFetch, domFetch, clock, calls, last>>

\* reader.read() resolves with the next n bytes of the body.
ReadChunk(n) ==
    /\ stream.pc = "reading"
    /\ stream.read + n <= Len(stream.body)
    /\ stream' = readValue(stream, SubSeq(stream.body, stream.read + 1,
                                          stream.read + n))
    /\ UNCHANGED search
    /\ Idle

\* reader.read() resolves with done: the body has been read.
ReadDone ==
    /\ stream.pc = "reading"
    /\ stream.read = Len(stream.body)
    /\ stream' = readDone(stream)
    /\ UNCHANGED search
    /\ Idle

\* reader.read() rejects: the connection broke.
ReadFails ==
    /\ stream.pc = "reading"
    /\ stream' = readFailed(stream)
    /\ UNCHANGED search
    /\ Idle

\* The sizes of the chunks a read gives: any, up to the whole body.
ChunkSizes ==
    LET lengths == {Len(body) : body \in StreamBodies}
    IN  1..(CHOOSE n \in lengths : \A k \in lengths : k <= n)

NextStream ==
    \/ \E n \in ChunkSizes : ReadChunk(n)
    \/ ReadDone
    \/ ReadFails

SpecStream == InitStream /\ [][NextStream]_vars

\* ------------------------------------------------------ the provider call

\* [this.endpoint, ...this.fallbackEndpoints]
endpoints ==
    <<"api.jina.ai", "api-fallback.jina.ai", "api-backup.jina.ai">>

\* this.retryAttempts
retryAttempts == 3

\* The keys search finds in this.apiKey: the key of the constructor or a
\* stored one, no key, and a blank key.
ApiKeys == { <<"j","i","n","a","_","3","e">>, <<>>, <<" ">> }

\* What a request comes to: a response with a success status whose body is
\* what was asked for, one whose body is not JSON, a response with another
\* status, and a rejected fetch.
Outcomes == {"ok", "notJson", "status", "networkError"}

\* The error thrown inside the try for an outcome that does not return.
ErrorOf(outcome, attempt, endpoint) ==
    [message |-> CASE outcome = "status" -> "API Error"
                   [] outcome = "networkError" -> "Failed to fetch"
                   [] OTHER -> "Unexpected token",
     attempt |-> attempt, endpoint |-> endpoint]

NoKeyError ==
    [message |-> "No API key provided", attempt |-> 0, endpoint |-> 0]

\* search called with a key and the stream option: nothing requested yet.
Searching(apiKey, streamed) ==
    [pc |-> "called", apiKey |-> apiKey, streamed |-> streamed,
     i |-> 0, endpoint |-> 0, requests |-> <<>>, responses |-> <<>>,
     logged |-> <<>>, delays |-> <<>>, lastError |-> NoKeyError,
     shown |-> <<>>, ret |-> "none"]

\* fetch(endpoint, ...) issued (line 202): the position in the two loops
\* and the log of the requests.
fetch(s, i, endpoint) ==
    [s EXCEPT !.pc = "fetching", !.i = i, !.endpoint = endpoint,
              !.requests = Append(@, endpoints[endpoint])]

\* The start of search up to the first await (lines 125-202): the key is
\* validated, then the primary endpoint is requested.
searchCalled(s) ==
    IF s.apiKey = <<>> \/ trim(s.apiKey) = <<>>
    THEN [s EXCEPT !.pc = "threw", !.ret = "error", !.lastError = NoKeyError]
    ELSE fetch(s, 0, 1)

\* The catch in which every failure starts the wait for the next round: the
\* fallbacks are not tried.
requestFailedNoFallback(s, error) ==
    [s EXCEPT !.lastError = error, !.logged = Append(@, error),
              !.pc = "waiting"]

\* The catch of a request (lines 237-242) and what follows it: the error is
\* logged and kept, the next endpoint of the round is requested, and after
\* the last one the wait before the next round starts (line 246).
requestFailed(s, error) ==
    LET caught == [s EXCEPT !.lastError = error, !.logged = Append(@, error)]
    IN  IF s.endpoint < Len(endpoints) THEN fetch(caught, s.i, s.endpoint + 1)
        ELSE [caught EXCEPT !.pc = "waiting"]

\* The try of a request once the fetch is settled (lines 202-236).
responded(s, outcome) ==
    LET answered == [s EXCEPT !.responses = Append(@, outcome)]
    IN  IF outcome = "ok" \/ (outcome = "notJson" /\ s.streamed)
        THEN [answered EXCEPT !.pc = "returned",
                              !.ret = IF s.streamed THEN "response.body"
                                      ELSE "response.json()"]
        ELSE requestFailed(answered, ErrorOf(outcome, s.i + 1, s.endpoint))

\* The end of the wait after a round (lines 246-251): the next round starts
\* at the primary endpoint, and after the last round the message of the last
\* error is shown and the error thrown.
delayElapsed(s) ==
    LET waited == [s EXCEPT !.delays = Append(@, 1000 * (s.i + 1))]
    IN  IF s.i + 1 < retryAttempts THEN fetch(waited, s.i + 1, 1)
        ELSE [waited EXCEPT !.pc = "threw", !.ret = "error",
                            !.shown = Append(@, s.lastError.message)]

\* Sessions with one call of search.
InitSearch ==
    \E apiKey \in ApiKeys, streamed \in BOOLEAN :
        LET c == Constructed(TRUE, EmptyStorage, "ok")
        IN  /\ academics = c.S.academics
            /\ noveltyTiles = c.S.noveltyTiles
            /\ favorites = c.S.favorites
            /\ pendingSubmissions = c.S.pendingSubmissions
            /\ taxonomyCategories = c.S.taxonomyCategories
            /\ localStorageSupported = TRUE
            /\ ls = c.S.ls
            /\ quota = "ok"
            /\ search = Searching(apiKey, streamed)
            /\ stream = NoStream
            /\ seedFetch = "done"
            /\ domFetch = "done"
            /\ clock = 1
            /\ calls = MaxOps
            /\ last = [op |-> "search", arg |-> streamed, ret |-> <<>>,
                       pre |-> c.S]

\* search(query, options) runs to its first await.
SearchCalled ==
    /\ search.pc = "called"
    /\ search' = searchCalled(search)
    /\ UNCHANGED stream
    /\ Idle

\* The request in flight is settled.
Responded(outcome) ==
    /\ search.pc = "fetching"
    /\ search' = responded(search, outcome)
    /\ UNCHANGED stream
    /\ Idle

\* The timer of the wait after a round fires.
DelayElapsed ==
    /\ search.pc = "waiting"
    /\ search' = delayElapsed(search)
    /\ UNCHANGED stream
    /\ Idle

NextSearch ==
    \/ SearchCalled
    \/ \E outcome \in Outcomes : Responded(outcome)
    \/ DelayElapsed

SpecSearch == InitSearch /\ [][NextSearch]_vars

\* ------------------------------------------------------------ properties

IsPrefix(a, b) == Len(a) <= Len(b) /\ \A i \in 1..Len(a) : b[i] = a[i]

Count(arr, v) == Cardinality({i \in 1..Len(arr) : arr[i] = v})

NoDuplicates(arr) == \A i, j \in 1..Len(arr) : arr[i] = arr[j] => i = j

\* The dedup rule of the data model: same title whatever the case, and
\* years that are equal or missing on either side.
Duplicate(p, q) ==
    /\ p.title # Undefined /\ q.title # Undefined
    /\ toLowerCase(p.title) = toLowerCase(q.title)
    /\ (p.year = 0 \/ q.year = 0 \/ p.year = q.year)

NameIsEmpty(academic) == academic.name = <<>> \/ academic.name = Undefined

\* The last call was addOrUpdateAcademic with a candidate whose key the
\* catalogue already had.
Merged ==
    /\ last.op = "addOrUpdateAcademic"
    /\ ~NameIsEmpty(last.arg)
    /\ HasKey(last.pre.academics, _normalizeNameKey(last.arg.name))

MergedKey == _normalizeNameKey(last.arg.name)
Before == Get(last.pre.academics, MergedKey)
After == Get(academics, MergedKey)

\* The keys of the records a candidate's connections name.
ConnectedKeys(academic, catalogue) ==
    {_normalizeNameKey(academic.connections[i]) :
        i \in {j \in 1..Len(academic.connections) :
                 /\ academic.connections[j] # <<>>
                 /\ HasKey(catalogue, _normalizeNameKey(academic.connections[j]))}}

C2_Idempotent ==
    \A academic \in Candidates :
        LET once == addOrUpdateAcademic(Store, academic, clock, quota)
            twice == addOrUpdateAcademic(once.S, academic, clock + 1, quota)
        IN  /\ twice.S.academics = once.S.academics
            /\ twice.S.ls.academics = once.S.ls.academics

\* A second call with the candidate that a first call stored, papers and
\* connections included, left the catalogue as it was.
C2_Witness ==
    /\ Merged /\ last.ret
    /\ Before = last.arg
    /\ last.arg.papers # <<>>
    /\ last.arg.connections # <<>>
    /\ academics = last.pre.academics

\* The dedup rule for one list of a merged record: what the record had
\* stays in front, an item is appended only if nothing before it in the
\* list is a duplicate of it, and after a merge that returned success every
\* candidate item has a duplicate in the list.
DedupOnMerge(old, new, candidate) ==
    /\ IsPrefix(old, new)
    /\ \A j \in (Len(old) + 1)..Len(new) :
          /\ includes(candidate, new[j])
          /\ \A i \in 1..(j - 1) : ~Duplicate(new[i], new[j])
    /\ (\A i \in 1..Len(candidate) : \E j \in 1..Len(old) :
            Duplicate(old[j], candidate[i])) => Len(new) = Len(old)
    /\ last.ret => \A i \in 1..Len(candidate) :
            candidate[i].title # Undefined =>
                \E j \in 1..Len(new) : Duplicate(new[j], candidate[i])

\* C3: when addOrUpdateAcademic merges into a record, a candidate paper or
\* event is appended only if no item of the list has the same title up to
\* case with compatible years; otherwise the length is unchanged.
C3_DedupOnMerge ==
    Merged =>
        /\ DedupOnMerge(Before.papers, After.papers, last.arg.papers)
        /\ DedupOnMerge(Before.events, After.events, last.arg.events)

\* A merge left the papers as they were because the candidate's paper
\* differs from a stored one in the case of its title only.
C3_Witness ==
    /\ Merged /\ last.ret
    /\ Len(After.papers) = Len(Before.papers)
    /\ \E i \in 1..Len(last.arg.papers), j \in 1..Len(Before.papers) :
          /\ last.arg.papers[i].title # Before.papers[j].title
          /\ Duplicate(Before.papers[j], last.arg.papers[i])

\* C4: a merge keeps the name, and keeps every paper, event, connection and
\* taxonomy value the record had, in their order.
C4_MergeKeeps ==
    Merged =>
        /\ After.name = Before.name
        /\ IsPrefix(Before.papers, After.papers)
        /\ IsPrefix(Before.events, After.events)
        /\ IsPrefix(Before.connections, After.connections)
        /\ \A c \in DOMAIN Before.taxonomies :
              /\ c \in DOMAIN After.taxonomies
              /\ IsPrefix(Before.taxonomies[c], After.taxonomies[c])

\* A merge replaced the bio and appended to papers that were not empty.
C4_Witness ==
    /\ Merged /\ last.ret
    /\ After.bio # Before.bio
    /\ Len(Before.papers) > 0
    /\ Len(After.papers) > Len(Before.papers)
    /\ Len(After.connections) > Len(Before.connections)

\* C5: addOrUpdateAcademic reports success for every candidate whose name
\* is not empty.
C5_FailsOnlyOnEmptyName ==
    (last.op = "addOrUpdateAcademic" /\ ~NameIsEmpty(last.arg)) => last.ret

\* C6: a candidate without a name is refused with false, and the store and
\* every localStorage slot are as they were.
C6_NamelessRefused ==
    (last.op \in {"addOrUpdateAcademic", "enrichDatabase"} /\ NameIsEmpty(last.arg)) =>
        /\ last.ret = FALSE
        /\ Store = last.pre

\* A candidate with an empty name and with connections was refused.
C6_Witness ==
    /\ last.op \in {"addOrUpdateAcademic", "enrichDatabase"}
    /\ last.arg.name = <<>>
    /\ last.arg.connections # <<>>
    /\ last.ret = FALSE

\* C7 as stated: a key of the catalogue stays in it through every call
\* and callback other than clearDatabase.
C7_OnlyClearRemoves ==
    last.op # "clearDatabase" => Keys(last.pre.academics) \subseteq Keys(academics)

\* The calls that put another catalogue in place of this.academics.
ReplacedCatalogue ==
    \/ last.op \in {"clearDatabase", "importFromJSON"} /\ last.ret
    \/ last.op \in {"seedFetch", "domFetch"}

\* C7 amended: a key of the catalogue stays in it, at its place, through
\* every call and callback other than clearDatabase, a successful
\* importFromJSON and the two callbacks that load the seed dataset.
C7_OnlyReplacementRemoves ==
    ~ReplacedCatalogue =>
        \A i \in 1..Len(last.pre.academics) :
            /\ i <= Len(academics)
            /\ academics[i].key = last.pre.academics[i].key

\* A call added a key to a catalogue of two or more, which kept its keys.
C7_Witness ==
    /\ last.op \in {"addOrUpdateAcademic", "enrichDatabase"} /\ last.ret
    /\ Len(last.pre.academics) >= 2
    /\ Len(academics) > Len(last.pre.academics)

\* C8: every record of the catalogue has a name that is not empty.
C8_EveryRecordNamed ==
    \A i \in 1..Len(academics) :
        academics[i].rec.name # Undefined /\ academics[i].rec.name # <<>>

\* C9: every key of the catalogue is the normalized name of its record, so
\* no two entries have names with the same normalized key.
C9_KeyIsNormalizedName ==
    \A i \in 1..Len(academics) :
        academics[i].key = _normalizeNameKey(academics[i].rec.name)

NoDuplicateValues(catalogue) ==
    \A i \in 1..Len(catalogue) :
        /\ NoDuplicates(catalogue[i].rec.connections)
        /\ \A c \in DOMAIN catalogue[i].rec.taxonomies :
              NoDuplicates(catalogue[i].rec.taxonomies[c])

\* C10 as stated: after any sequence of addOrUpdateAcademic calls from the
\* empty store no connections list and no taxonomy category of a record
\* has a value twice.
C10_NoDuplicateValues == NoDuplicateValues(academics)

\* A merge appends a value once if the list lacks it and not at all if the
\* list has it.
UnionMerged(old, new, candidate) ==
    \A v \in Range(old) \cup Range(new) \cup Range(candidate) :
        Count(new, v) = IF includes(old, v) THEN Count(old, v)
                        ELSE IF includes(candidate, v) THEN 1 ELSE 0

\* C10 amended: a merge adds to a connections list or a taxonomy category
\* only values the list lacks, each once, and a new record is stored as the
\* candidate gives it; so a call with a candidate whose lists have no value
\* twice, on a catalogue whose lists have none, leaves a catalogue whose
\* lists have none.
C10_MergeAddsNoDuplicate ==
    last.op = "addOrUpdateAcademic" =>
        /\ (Merged /\ last.ret) =>
              /\ UnionMerged(Before.connections, After.connections,
                             last.arg.connections)
              /\ \A c \in DOMAIN last.arg.taxonomies :
                    UnionMerged(IF c \in DOMAIN Before.taxonomies
                                THEN Before.taxonomies[c] ELSE <<>>,
                                After.taxonomies[c], last.arg.taxonomies[c])
        /\ (last.ret /\ ~Merged) => Get(academics, MergedKey) = last.arg
        /\ (/\ NoDuplicateValues(last.pre.academics)
            /\ NoDuplicates(last.arg.connections)
            /\ \A c \in DOMAIN last.arg.taxonomies :
                  NoDuplicates(last.arg.taxonomies[c]))
           => NoDuplicateValues(academics)

\* A merge appended one connection of the candidate and passed over another
\* that the record had.
C10_Witness ==
    /\ Merged /\ last.ret
    /\ NoDuplicateValues(last.pre.academics)
    /\ NoDuplicates(last.arg.connections)
    /\ Len(After.connections) > Len(Before.connections)
    /\ \E i \in 1..Len(last.arg.connections) :
          includes(Before.connections, last.arg.connections[i])

\* The last call imported the text exportToJSON gave for the store the
\* import found.
ImportedOwnExport ==
    /\ last.op = "importFromJSON"
    /\ \E now \in 1..clock : last.arg = exportToJSON(last.pre, now).ret

VerificationFailed ==
    /\ last.op \in {"seedFetch", "domFetch"}
    /\ ~typeofObject(last.arg)
    /\ last.pre.localStorageSupported
    /\ quota = "ok"

\* C12 as stated: when the read-back fails the save reports failure and
\* the in-memory catalogue is what it was when the save was attempted,
\* which is the dataset the callback had assigned.
C12_RestoresAttemptedCatalogue ==
    VerificationFailed => (~last.ret /\ academics = last.arg)

\* What _createBackup leaves in the backup slot for a save that starts
\* with these slots.
BackupOf(slots) == IF slots.academics.present THEN slots.academics ELSE slots.backup

\* C12 amended: when the read-back fails the save reports failure, and the
\* in-memory catalogue and the academics slot are set to the catalogue the
\* academics slot held before the save, of which _createBackup took a
\* copy; with no copy that parses to an object the catalogue stays what
\* the caller assigned.
C12_RestoresPersistedCatalogue ==
    VerificationFailed =>
        /\ ~last.ret
        /\ LET backup == BackupOf(last.pre.ls)
           IN  IF /\ backup.present /\ ~JSONparseThrows(backup.text)
                  /\ typeofObject(JSONparse(backup.text))
               THEN /\ academics = JSONparse(backup.text)
                    /\ ls.academics = backup
               ELSE academics = last.arg

\* A read-back failed and the catalogue is the one the academics slot held
\* before, not the dataset assigned.
C12_Witness ==
    /\ VerificationFailed /\ ~last.ret
    /\ last.pre.ls.academics.present
    /\ academics = JSONparse(last.pre.ls.academics.text)
    /\ academics # last.arg
    /\ Len(academics) >= 1

\* What a slot holds for a reader: the parsed value, and nothing for a
\* slot never set or one that does not parse.
PersistedValue(slot) ==
    IF slot.present /\ ~JSONparseThrows(slot.text)
    THEN JSONparse(slot.text) ELSE <<>>

\* The persisted catalogue and favorites are the in-memory ones.
PersistedEqualsMemory ==
    /\ PersistedValue(ls.academics) = academics
    /\ PersistedValue(ls.favorites) = favorites

\* C13: on a page that has localStorage, whenever addOrUpdateAcademic,
\* addToFavorites or removeFromFavorites returns true, the persisted
\* catalogue and favorites equal the in-memory catalogue and favorites.
C13_SuccessMeansPersisted ==
    (/\ last.op \in {"addOrUpdateAcademic", "addToFavorites",
                     "removeFromFavorites"}
     /\ last.pre.localStorageSupported
     /\ last.ret = TRUE) => PersistedEqualsMemory

\* The last call ran saveToLocalStorage on a page with localStorage and
\* the save returned false: the timer and the fetch callbacks give the
\* result of their save, and importFromJSON returns false for a text with
\* an academics object only when its save did.
SaveReportedFailure ==
    /\ last.pre.localStorageSupported
    /\ last.ret = FALSE
    /\ \/ last.op = "autoSave"
       \/ /\ last.op \in {"seedFetch", "domFetch"}
          /\ Len(last.arg) > 0
       \/ /\ last.op = "importFromJSON"
          /\ ~JSONparseThrows(last.arg)
          /\ JSONparse(last.arg).hasAcademics
          /\ typeofObject(JSONparse(last.arg).academics)

\* C14: whenever saveToLocalStorage reports failure, the academics slot
\* holds the value it held before the call.
C14_FailedSaveKeepsSlot ==
    SaveReportedFailure => ls.academics = last.pre.ls.academics

\* The entry the three tiers name for a query: the entry under the
\* normalized key, else the first whose name is the query without regard
\* to case, else the first whose name contains the query or is contained
\* in it, else none (0).  A record without a name matches no tier.
TierAnswer(catalogue, name) ==
    LET normalizedKey == _normalizeNameKey(name)
        lowerName == toLowerCase(name)
        exact == FirstIndex(catalogue,
                    LAMBDA r : r.name # Undefined /\ toLowerCase(r.name) = lowerName)
        partial == FirstIndex(catalogue,
                    LAMBDA r : /\ r.name # Undefined
                               /\ \/ includesStr(toLowerCase(r.name), lowerName)
                                  \/ includesStr(lowerName, toLowerCase(r.name)))
    IN  IF name = <<>> THEN 0
        ELSE IF \E i \in 1..Len(catalogue) : catalogue[i].key = normalizedKey
             THEN CHOOSE i \in 1..Len(catalogue) : catalogue[i].key = normalizedKey
        ELSE IF exact # 0 THEN exact
        ELSE partial

\* C15: on a catalogue that is an object, getAcademic returns the first
\* hit of the three tiers in their order of priority, and not-found when
\* no tier matches or the query is empty.
C15_ThreeTiers ==
    (last.op = "getAcademic" /\ typeofObject(academics)) =>
        /\ ~last.ret.thrown
        /\ last.ret.index = TierAnswer(academics, last.arg)

\* The tiers alone: whenever getAcademic returns, it returns the answer of
\* the three tiers.
C15_TiersWhenReturning ==
    (last.op = "getAcademic" /\ ~last.ret.thrown) =>
        last.ret.index = TierAnswer(academics, last.arg)

\* A record satisfies every supplied criterion: its name contains the name
\* asked, without regard to case, and for each category asked it has the
\* category with a value that contains what is asked or is contained in
\* it.  A record without a name contains no name.
Satisfies(academic, criteria) ==
    /\ criteria.name # <<>> =>
          /\ academic.name # Undefined
          /\ includesStr(toLowerCase(academic.name), toLowerCase(criteria.name))
    /\ \A field \in DOMAIN criteria.fields :
          criteria.fields[field] # <<>> =>
             /\ field \in DOMAIN academic.taxonomies
             /\ \E i \in 1..Len(academic.taxonomies[field]) :
                   LET value == toLowerCase(academic.taxonomies[field][i])
                       asked == toLowerCase(criteria.fields[field])
                   IN  includesStr(value, asked) \/ includesStr(asked, value)

\* The result holds each record that satisfies the criteria once, and no
\* other record.
ExactlySatisfying(results, catalogue, criteria) ==
    /\ \A i \in 1..Len(catalogue) :
          Satisfies(catalogue[i].rec, criteria) <=>
              \E k \in 1..Len(results) : results[k] = i
    /\ \A k, m \in 1..Len(results) : results[k] = results[m] => k = m

\* C16: on a catalogue that is an object, searchAcademics returns exactly
\* the records that satisfy every supplied criterion.
C16_ExactlyMatching ==
    (last.op = "searchAcademics" /\ typeofObject(academics)) =>
        /\ ~last.ret.thrown
        /\ ExactlySatisfying(last.ret.results, academics, last.arg)

\* The filter alone: whenever searchAcademics returns, it returns exactly
\* the records that satisfy every supplied criterion.
C16_ExactlyWhenReturning ==
    (last.op = "searchAcademics" /\ ~last.ret.thrown) =>
        ExactlySatisfying(last.ret.results, academics, last.arg)

\* The last call was a search by name that returned.
NameSearchReturned ==
    /\ last.op = "searchAcademics"
    /\ last.arg.name # <<>>
    /\ ~last.ret.thrown

\* The name of the k-th result of the last search.
ResultName(k) == academics[last.ret.results[k]].rec.name

\* The k-th result is named as the query, without regard to case.
ExactResult(k) == toLowerCase(ResultName(k)) = toLowerCase(last.arg.name)

\* C17: in the result of a search by name, every record whose name equals
\* the query without regard to case stands before every record whose name
\* only contains it.
C17_ExactFirst ==
    NameSearchReturned =>
        \A k, m \in 1..Len(last.ret.results) :
            (ExactResult(k) /\ ~ExactResult(m)) => k < m

\* A search returned an exact match first that the catalogue holds behind
\* a record that only contains the query.
C17_Witness ==
    /\ NameSearchReturned
    /\ Len(last.ret.results) >= 2
    /\ ExactResult(1)
    /\ \E m \in 2..Len(last.ret.results) :
          /\ ~ExactResult(m)
          /\ last.ret.results[m] < last.ret.results[1]

\* The position of the query in the name of the k-th result.
MatchPosition(k) ==
    indexOf(toLowerCase(ResultName(k)), toLowerCase(last.arg.name))

\* C18: among the results of a name search that are not exact matches, a
\* record stands before another when its match is at an earlier position,
\* and records with the match at the same position stand in alphabetical
\* order of their names.
C18_PositionThenAlphabetical ==
    NameSearchReturned =>
        \A k, m \in 1..Len(last.ret.results) :
            (k < m /\ ~ExactResult(k) /\ ~ExactResult(m)) =>
                /\ MatchPosition(k) <= MatchPosition(m)
                /\ MatchPosition(k) = MatchPosition(m) =>
                       localeCompare(ResultName(k), ResultName(m)) <= 0

\* The first half alone: non-exact results stand in ascending order of
\* the position of the match.
C18_PositionAscending ==
    NameSearchReturned =>
        \A k, m \in 1..Len(last.ret.results) :
            (k < m /\ ~ExactResult(k) /\ ~ExactResult(m)) =>
                MatchPosition(k) <= MatchPosition(m)

\* The ids of the nodes of a network.
NodeIds(network) == {network.nodes[i].id : i \in 1..Len(network.nodes)}

\* The nodes are the named records, one each and in their order, and
\* every connection of a named record to the name of a node has its link.
NodesAndLinksOfNamed(network, catalogue) ==
    LET named == SelectSeq(catalogue, LAMBDA e : Truthy(e.rec.name))
    IN  /\ Len(network.nodes) = Len(named)
        /\ \A i \in 1..Len(named) : network.nodes[i].id = named[i].rec.name
        /\ \A i \in 1..Len(named) :
              \A c \in 1..Len(named[i].rec.connections) :
                  named[i].rec.connections[c] \in NodeIds(network) =>
                     \E l \in 1..Len(network.links) :
                        /\ network.links[l].source = named[i].rec.name
                        /\ network.links[l].target = named[i].rec.connections[c]

\* C19: getNetworkData gives one node per named record and a link for
\* every connection to the name of a node and for no other; the source
\* and the target of every link are ids of nodes.
C19_LinksJoinNodes ==
    last.op = "getNetworkData" =>
        /\ NodesAndLinksOfNamed(last.ret, academics)
        /\ \A l \in 1..Len(last.ret.links) :
              /\ last.ret.links[l].source \in NodeIds(last.ret)
              /\ last.ret.links[l].target \in NodeIds(last.ret)

\* The part about targets alone: the nodes are the named records, and the
\* target of every link is the id of a node, so a connection to a name
\* that no record has gives no link.
C19_TargetsAreNodes ==
    last.op = "getNetworkData" =>
        /\ NodesAndLinksOfNamed(last.ret, academics)
        /\ \A l \in 1..Len(last.ret.links) :
              last.ret.links[l].target \in NodeIds(last.ret)

\* The operations of the query engine.
QueryOperations ==
    {"getAcademic", "searchAcademics", "getAcademicsByConnection",
     "getNetworkData", "getRecentNoveltyTiles"}

\* C20: getAcademic, searchAcademics, getAcademicsByConnection,
\* getNetworkData and getRecentNoveltyTiles leave the catalogue, the
\* novelty tiles, the favorites, the pending submissions, the taxonomy
\* categories and every localStorage slot as they were.
C20_QueriesOnlyRead ==
    last.op \in QueryOperations => Store = last.pre

\* getRecentNoveltyTiles gave the newest tiles and not all of them, and
\* this.noveltyTiles holds every tile it held.
C20_Witness ==
    /\ last.op = "getRecentNoveltyTiles"
    /\ Len(last.ret) >= 1
    /\ Len(last.ret) < Len(noveltyTiles)
    /\ noveltyTiles = last.pre.noveltyTiles

\* A title holds no year token: neither (dddd) nor a comma and dddd.
WithoutYearToken(title) ==
    SearchParenYear(title, 1) = 0 /\ SearchCommaYear(title, 1) = 0

\* The record the extraction scenario asks for.
ScenarioRecord(academic) ==
    /\ academic.name = <<"J","a","c","q","u","e","s"," ","D","e","r","r","i",
        "d","a">>
    /\ Len(academic.papers) = 2
    /\ \A i \in 1..Len(academic.papers) :
          /\ academic.papers[i].year = 1967
          /\ WithoutYearToken(academic.papers[i].title)
    /\ academic.connections = <<<<"M","i","c","h","e","l"," ","F","o","u","c",
        "a","u","l","t">>, <<"E","m","m","a","n","u","e","l"," ","L","e","v",
        "i","n","a","s">>>>

\* C21: extractAcademicData of the labelled text of the scenario gives a
\* record with the name Jacques Derrida, two papers that both have the
\* year 1967 and titles without the year token, and the connections
\* Michel Foucault and Emmanuel Levinas and no other.
C21_ScenarioExtraction ==
    (last.op = "extractAcademicData" /\ last.arg = ScenarioText) =>
        last.ret.found /\ ScenarioRecord(last.ret.academic)

\* The same text with the labels name:, bio:, papers: and connections:
\* in lower case gives a record with this name and two papers of 1967.
C21_LowerCaseLabels ==
    (last.op = "extractAcademicData" /\ last.arg = ScenarioLowerCaseText) =>
        /\ last.ret.found
        /\ last.ret.academic.name = <<"J","a","c","q","u","e","s"," ","D","e",
            "r","r","i","d","a">>
        /\ Len(last.ret.academic.papers) = 2
        /\ \A i \in 1..2 : last.ret.academic.papers[i].year = 1967
        /\ Len(last.ret.academic.connections) = 2

\* The first item of each of its lists keeps the bullet of its line.
C21_FirstBulletKept ==
    /\ last.op = "extractAcademicData" /\ last.arg = ScenarioLowerCaseText
    /\ last.ret.academic.papers[1].title = <<"-"," ","O","f"," ","G","r","a",
        "m","m","a","t","o","l","o","g","y">>
    /\ last.ret.academic.papers[2].title = <<"W","r","i","t","i","n","g"," ",
        "a","n","d"," ","D","i","f","f","e","r","e","n","c","e">>
    /\ last.ret.academic.connections
           = <<<<"-"," ","M","i","c","h","e","l"," ","F","o","u","c","a","u",
               "l","t">>, <<"E","m","m","a","n","u","e","l"," ","L","e","v",
               "i","n","a","s">>>>

\* A name can be determined from the text: the fenced JSON block has one,
\* or one of the name patterns captures one.
NameDeterminable(text) ==
    LET jsonMatch == jsonRegex(text)
        jsonData == JSONparseBlock(trim(jsonMatch.text))
    IN  \/ /\ jsonMatch.matched /\ jsonMatch.text # <<>>
           /\ ~jsonData.thrown /\ Truthy(jsonData.value.name)
        \/ ExtractName(text, 1) # <<>>

\* C22: extractAcademicData returns null if and only if neither the JSON
\* block nor the name patterns determine a name; when one of them does,
\* a record with that name is returned.
C22_NullOnlyWithoutName ==
    last.op = "extractAcademicData" =>
        (last.ret.found <=> NameDeterminable(last.arg))

\* The direction that holds: a record is returned only with a name, and
\* what the text does not give is an empty list, an empty object or, for
\* the bio of the heading path, the empty string.
C22_RecordHasName ==
    last.op = "extractAcademicData" =>
        (last.ret.found =>
            /\ NameDeterminable(last.arg)
            /\ Truthy(last.ret.academic.name))

\* The store enrichDatabase has when its loop over the connections starts:
\* the candidate is merged and its own tile is added.
BeforePropagation ==
    addNoveltyTile(
        addOrUpdateAcademic(last.pre, last.arg, clock - 1, quota).S,
        Tile("Database Enriched", last.arg.name, <<>>, "academic", clock - 1),
        clock - 1, quota).S

\* The entries of that store the connections of the candidate resolve to.
ResolvedEntries ==
    {getAcademic(BeforePropagation, last.arg.connections[c]).index :
        c \in 1..Len(last.arg.connections)} \ {0}

\* The connection tiles of this enrichment about the record named subject.
ConnectionTilesFor(subject) ==
    {t \in 1..Len(noveltyTiles) :
        /\ noveltyTiles[t].type = "connection"
        /\ noveltyTiles[t].subject = subject
        /\ noveltyTiles[t].other = last.arg.name
        /\ noveltyTiles[t].date = clock - 1}

\* The entries the connections resolve to have the candidate's name: one
\* that lacked it has it once more, at the end, and one connection tile;
\* one that had it is as it was, and has no tile.
PropagatedInMemory ==
    \A i \in ResolvedEntries :
        LET before == BeforePropagation.academics[i].rec
            after == academics[i].rec
        IN  /\ includes(after.connections, last.arg.name)
            /\ IF includes(before.connections, last.arg.name)
               THEN after = before /\ ConnectionTilesFor(before.name) = {}
               ELSE /\ after = [before EXCEPT
                                   !.connections = Append(@, last.arg.name)]
                    /\ Cardinality(ConnectionTilesFor(before.name)) = 1

\* The entries that were given the name are in the academics slot as they
\* are in memory.
PropagatedInStorage ==
    \A i \in ResolvedEntries :
        LET before == BeforePropagation.academics[i].rec
            persisted == PersistedValue(ls.academics)
        IN  ~includes(before.connections, last.arg.name) =>
                /\ Len(persisted) >= i
                /\ persisted[i] = academics[i]

\* C23: after enrichDatabase returns true for a candidate, every record a
\* name of the candidate's connections resolves to has the candidate's
\* name among its connections; a record that lacked it has it appended
\* once, is in the academics slot of localStorage with it, and has exactly
\* one connection tile; a record that had it is unchanged and has no tile.
C23_ReciprocalPropagation ==
    (last.op = "enrichDatabase" /\ last.ret) =>
        /\ PropagatedInMemory
        /\ (localStorageSupported => PropagatedInStorage)

\* The part in memory alone.
C23_PropagatedInMemory ==
    (last.op = "enrichDatabase" /\ last.ret) => PropagatedInMemory

\* An enrichment found a record that lacked the candidate's name.
C23_Witness ==
    /\ last.op = "enrichDatabase" /\ last.ret
    /\ \E i \in ResolvedEntries :
          ~includes(BeforePropagation.academics[i].rec.connections, last.arg.name)

\* The keys of a catalogue.
KeySet(catalogue) == {catalogue[i].key : i \in 1..Len(catalogue)}

\* The entries of the catalogue before the call whose connections the call
\* changed.
ConnectionsChanged ==
    {i \in 1..Len(last.pre.academics) :
        \/ ~HasKey(academics, last.pre.academics[i].key)
        \/ Get(academics, last.pre.academics[i].key).connections
               # last.pre.academics[i].rec.connections}

\* The entry of the candidate: the one under the normalized name.
CandidateEntry(i) ==
    last.pre.academics[i].key = _normalizeNameKey(last.arg.name)

\* The entries of the catalogue before the call that a connection of the
\* candidate resolves to when the loop over the connections starts.
DirectlyResolved(i) ==
    \E j \in ResolvedEntries :
        BeforePropagation.academics[j].key = last.pre.academics[i].key

\* C24: an enrichment changes the connections of no record but the
\* candidate's and those the candidate's connections resolve to, and the
\* catalogue has no key after it that it did not have before, but the
\* candidate's.
C24_OneHop ==
    (last.op = "enrichDatabase" /\ typeofObject(last.pre.academics)) =>
        /\ \A i \in ConnectionsChanged : CandidateEntry(i) \/ DirectlyResolved(i)
        /\ KeySet(academics) \subseteq
               KeySet(last.pre.academics) \cup {_normalizeNameKey(last.arg.name)}

\* The part about connections alone: no record but the candidate's and
\* those its connections resolve to has other connections after the call.
C24_ConnectionsOneHop ==
    (last.op = "enrichDatabase" /\ typeofObject(last.pre.academics)) =>
        \A i \in ConnectionsChanged : CandidateEntry(i) \/ DirectlyResolved(i)

\* An enrichment changed the connections of a record the candidate names
\* and left a record alone that this record names.
C24_Witness ==
    /\ last.op = "enrichDatabase" /\ last.ret
    /\ \E i \in ConnectionsChanged : ~CandidateEntry(i) /\ DirectlyResolved(i)
    /\ \E i \in 1..Len(last.pre.academics) :
          /\ i \notin ConnectionsChanged
          /\ \E j \in ConnectionsChanged :
                includes(last.pre.academics[j].rec.connections,
                         last.pre.academics[i].rec.name)

\* The last step was one call of saveToLocalStorage on a page with
\* localStorage: the timer, or the callback of the seed fetch, which
\* assigns the dataset and saves.
SavedOnce ==
    /\ last.op \in {"autoSave", "seedFetch"}
    /\ last.pre.localStorageSupported

\* That call found a value in the academics slot and left another.
SlotOverwritten ==
    /\ SavedOnce
    /\ last.pre.ls.academics.present
    /\ ls.academics # last.pre.ls.academics

\* C25: whenever saveToLocalStorage puts another value into an academics
\* slot that held one, the backup slot holds, after the call, the value
\* the academics slot held before it.
C25_BackupBeforeOverwrite ==
    SlotOverwritten => ls.backup = last.pre.ls.academics

\* The same where the browser accepts the write of the backup copy.
C25_BackupWhenWritten ==
    (SlotOverwritten /\ quota # "backupFails") =>
        ls.backup = last.pre.ls.academics

\* A save changed the academics slot and left the backup slot as it was,
\* without the value the academics slot held.
C25_StaleBackup ==
    /\ SlotOverwritten /\ last.ret
    /\ ls.backup = last.pre.ls.backup
    /\ ls.backup # last.pre.ls.academics

\* That call met a QuotaExceededError: the browser refused a write of the
\* try block.
SaveHitQuota ==
    /\ SavedOnce
    /\ quota \in {"acadThenOk", "acadThenFail", "tilesThenFail"}

\* The tiles list the catch block leaves for the list it finds.
MostRecentTiles(tiles) ==
    IF Len(tiles) > TrimmedTiles
    THEN slice(sortByDateDesc(tiles), TrimmedTiles)
    ELSE tiles

\* C26: a save that meets a quota error leaves the 20 most recent tiles in
\* the list, reports success exactly when the writes of the fallback are
\* accepted, and after a success the tiles slot holds that list and the
\* academics slot holds the catalogue.
C26_CapacityRecovery ==
    SaveHitQuota =>
        /\ noveltyTiles = MostRecentTiles(last.pre.noveltyTiles)
        /\ last.ret = (quota = "acadThenOk")
        /\ last.ret =>
              /\ ls.noveltyTiles = Item(JSONstringify(noveltyTiles))
              /\ ls.academics = Item(JSONstringify(academics))

\* The same with the tiles slot written only for a list that was longer
\* than 20: the fallback leaves the slot of a shorter list as it was.
C26_TrimWhenLonger ==
    SaveHitQuota =>
        /\ noveltyTiles = MostRecentTiles(last.pre.noveltyTiles)
        /\ last.ret = (quota = "acadThenOk")
        /\ last.ret =>
              /\ ls.noveltyTiles =
                     IF Len(last.pre.noveltyTiles) > TrimmedTiles
                     THEN Item(JSONstringify(noveltyTiles))
                     ELSE last.pre.ls.noveltyTiles
              /\ ls.academics = Item(JSONstringify(academics))

\* A save met a quota error with more than 20 tiles in the list, cut the
\* list to 20 and reported success.
C26_Witness ==
    /\ SaveHitQuota /\ last.ret
    /\ Len(last.pre.noveltyTiles) > TrimmedTiles
    /\ Len(noveltyTiles) = TrimmedTiles
    /\ ls.noveltyTiles = Item(JSONstringify(noveltyTiles))

\* A save met a quota error with a short list, reported success and left
\* a tiles slot that does not hold the list.
C26_ShortListNotPersisted ==
    /\ SaveHitQuota /\ last.ret
    /\ Len(last.pre.noveltyTiles) <= TrimmedTiles
    /\ ls.noveltyTiles # Item(JSONstringify(noveltyTiles))

\* What _loadFromLocalStorage takes from a slot: a list slot that parses to
\* an array, an academics slot that parses to an object with a key.
Parses(slot) == slot.present /\ ~JSONparseThrows(slot.text)

ListLoads(slot) == Parses(slot) /\ ~typeofNumber(slot.text)

CatalogueLoads(slot) ==
    /\ Parses(slot) /\ ~typeofNumber(slot.text)
    /\ typeofObject(JSONparse(slot.text))
    /\ Len(JSONparse(slot.text)) > 0

\* The page was constructed with localStorage in the last step.
Loaded == last.op = "constructor" /\ last.pre.localStorageSupported

EmptyLoad == last.op = "constructor" /\ ~last.ret

\* The callback of the seed fetch ran in the last step with a dataset that
\* has keys.
SeedDatasetArrived == last.op = "seedFetch" /\ Len(last.arg) > 0

\* The step is the callback of the seed fetch with an empty dataset, or the
\* catch of a fetch that failed.
SeedFetchWithoutDataset ==
    seedFetch = "pending" /\ seedFetch' = "done" /\ last' = last

C28_DatasetNotPersisted ==
    /\ SeedDatasetArrived /\ localStorageSupported
    /\ academics = SeedData
    /\ ls.academics # Item(JSONstringify(SeedData))

\* The page has been constructed and no callback has run since: last.ret
\* tells whether the load found a catalogue.
JustStarted == last.op = "constructor"

\* C29: in one startup the page does not fetch academics.json from the
\* constructor and again from the DOMContentLoaded handler, and it
\* fetches only after a load that found no catalogue.
C29_FetchedOnceWhenEmpty ==
    /\ ~(seedFetch # "none" /\ domFetch = "pending")
    /\ (JustStarted /\ (seedFetch # "none" \/ domFetch = "pending")) =>
           ~last.ret

\* The fetch of the constructor alone is issued only after a load that
\* found no catalogue.
C29_ConstructorFetchWhenEmpty ==
    (JustStarted /\ seedFetch # "none") => ~last.ret

\* Both fetches of one startup are in flight.
C29_TwoFetches == seedFetch = "pending" /\ domFetch = "pending"

\* The load found a catalogue and the DOMContentLoaded handler fetches.
C29_FetchAfterLoad ==
    JustStarted /\ last.ret /\ seedFetch = "none" /\ domFetch = "pending"

\* The step is the callback of a fetch of academics.json, and the call
\* before it was an addOrUpdateAcademic that returned true: the fetch was
\* pending when the record was added.
CallbackAfterAdd ==
    /\ last.op = "addOrUpdateAcademic" /\ last.ret
    /\ last'.op \in {"seedFetch", "domFetch"}

\* The key addOrUpdateAcademic gave the record.
AddedKey == _normalizeNameKey(last.arg.name)

\* C30: a record added while a fetch of the seed dataset is pending is in
\* the catalogue, and in the academics slot of a page with localStorage,
\* after the callback of that fetch.
C30_AddedRecordSurvives ==
    [][CallbackAfterAdd =>
          /\ HasKey(academics', AddedKey)
          /\ localStorageSupported =>
                /\ ls'.academics.present
                /\ HasKey(JSONparse(ls'.academics.text), AddedKey)]_vars

\* What holds instead: after the callback the catalogue has the key of the
\* added record exactly when the dataset has it.
C30_SurvivesIfInDataset ==
    [][CallbackAfterAdd =>
          (HasKey(academics', AddedKey) <=> HasKey(last'.arg, AddedKey))]_vars

\* The callback of a fetch took a record out of a catalogue that held more
\* than the placeholder.
C30_RecordLost ==
    /\ last.op \in {"seedFetch", "domFetch"}
    /\ Len(last.pre.academics) > 1
    /\ HasKey(last.pre.academics, DefaultData[1].key)
    /\ \E i \in 1..Len(last.pre.academics) :
          /\ last.pre.academics[i].key # DefaultData[1].key
          /\ ~HasKey(academics, last.pre.academics[i].key)

\* The timer fired in the last step.
TimerFired == last.op = "autoSave"

\* The tiles saveToLocalStorage writes: the 50 with the latest dates.
RecentTiles == slice(sortByDateDesc(noveltyTiles), PersistedTiles)

\* The four slots hold the four collections.
AllFourPersisted ==
    /\ ls.academics = Item(JSONstringify(academics))
    /\ ls.noveltyTiles = Item(JSONstringify(RecentTiles))
    /\ ls.favorites = Item(JSONstringify(favorites))
    /\ ls.pendingSubmissions = Item(JSONstringify(pendingSubmissions))

C31_FavoritesNotPersisted ==
    /\ TimerFired /\ last.ret
    /\ ls.favorites # Item(JSONstringify(favorites))

\* addNoveltyTile took a tile in the last step; Unshifted is the log with
\* that tile put in front, dated as the call dates it.
TileAdded == last.op = "addNoveltyTile" /\ last.ret

Unshifted ==
    <<IF last.arg.date = NoDate
      THEN [last.arg EXCEPT !.date = clock - 1] ELSE last.arg>>
        \o last.pre.noveltyTiles

\* C32: after addNoveltyTile the list in memory has at most 100 tiles and
\* they are the most recently added ones, the tile of the call first; and a
\* tiles slot the call wrote holds at most 50 tiles, those of the list
\* with the latest dates.
C32_LogBounded ==
    TileAdded =>
        /\ Len(noveltyTiles) <= MemoryTiles
        /\ Len(noveltyTiles) >= 1
        /\ noveltyTiles = slice(Unshifted, Len(noveltyTiles))
        /\ ls.noveltyTiles # last.pre.ls.noveltyTiles =>
              /\ Len(JSONparse(ls.noveltyTiles.text)) <= PersistedTiles
              /\ JSONparse(ls.noveltyTiles.text) = RecentTiles

\* The same where the browser refuses no write: the list is then the 100
\* most recently added tiles and the slot holds the 50 latest of them.
C32_LogBoundedWhenAccepted ==
    (TileAdded /\ quota = "ok") =>
        /\ noveltyTiles = slice(Unshifted, MemoryTiles)
        /\ localStorageSupported =>
              ls.noveltyTiles = Item(JSONstringify(RecentTiles))

\* The log was full, the tile of the call is first in it and the oldest
\* tile is gone; the slot holds 50 tiles.
C32_Witness ==
    /\ TileAdded /\ quota = "ok" /\ localStorageSupported
    /\ Len(last.pre.noveltyTiles) = MemoryTiles
    /\ Len(noveltyTiles) = MemoryTiles
    /\ noveltyTiles[1].subject = NameB
    /\ Len(JSONparse(ls.noveltyTiles.text)) = PersistedTiles

\* addNoveltyTile returned true and the tile it was given is not in the
\* list.
C32_AddedTileDropped ==
    /\ TileAdded
    /\ \A i \in 1..Len(noveltyTiles) : noveltyTiles[i].subject # NameB

\* importFromJSON returned false in the last step.
ImportFailed == last.op = "importFromJSON" /\ ~last.ret

\* C33: after an importFromJSON that returned false the catalogue and the
\* taxonomy categories in memory are what they were before the call.
C33_FailedImportRestores ==
    ImportFailed =>
        /\ academics = last.pre.academics
        /\ taxonomyCategories = last.pre.taxonomyCategories

\* The catalogue alone is what it was before the call.
C33_FailedImportRestoresCatalogue ==
    ImportFailed => academics = last.pre.academics

\* An import failed at the save and left the taxonomy categories of the
\* imported text in memory.
C33_CategoriesKept ==
    /\ ImportFailed
    /\ academics = last.pre.academics
    /\ taxonomyCategories # last.pre.taxonomyCategories
    /\ taxonomyCategories = JSONparse(last.arg).taxonomyCategories

\* The text at the three paths of the first choice of a document, in the
\* order delta.content, message.content, content; none without a choice.
PathsOf(data) ==
    LET value == JSONparseData(data).value
    IN  IF value.choices = <<>> THEN <<>>
        ELSE <<value.choices[1].delta, value.choices[1].message,
               value.choices[1].content>>

\* The text of the first path that carries text, '' when none does.
FirstText(paths) ==
    LET carrying == {i \in 1..Len(paths) : Truthy(paths[i])}
    IN  IF carrying = {} THEN <<>>
        ELSE paths[CHOOSE i \in carrying : \A j \in carrying : i <= j]

\* The arguments of the calls of a callback, in order.
ArgsOf(fn) ==
    LET made == SelectSeq(stream.callbacks, LAMBDA c : c.fn = fn)
    IN  [i \in 1..Len(made) |-> made[i].arg]

\* The texts taken from the parsed chunks, in order.
TextsTaken ==
    LET taking == SelectSeq(stream.parsed, LAMBDA e : e.content # <<>>)
    IN  [i \in 1..Len(taking) |-> taking[i].content]

\* C34: the text taken from every data line that parses is the text of the
\* first of delta.content, message.content and content of choices[0] that is
\* not empty, nothing when none is, and these texts, one for a chunk, are
\* what onChunk is called with.
C34_FirstPathWithText ==
    /\ \A i \in 1..Len(stream.parsed) :
          LET e == stream.parsed[i]
          IN  /\ ~e.thrown => e.content = FirstText(PathsOf(e.data))
              /\ e.thrown => e.content = <<>>
    /\ ArgsOf("onChunk") = TextsTaken

\* The stream of the three documents with more than one path has been read:
\* message.content was taken after an empty delta.content, delta.content
\* before message.content, and content after a delta without content.
C34_Witness ==
    /\ stream.pc = "returned"
    /\ Len(stream.parsed) = 3
    /\ stream.parsed[1].data = EmptyDeltaDocument
    /\ stream.parsed[2].data = DeltaAndMessageDocument
    /\ stream.parsed[3].data = NoDeltaContentDocument
    /\ ArgsOf("onChunk") = << <<"b">>, <<"a">>, <<"c">> >>

\* The data of the data lines of a body, in order.
DataOf(body) ==
    LET lines == SplitLines(decode(<<>>, body).text)
        dataLines == SelectSeq(lines, LAMBDA line : startsWith(line, DataPrefix))
    IN  [i \in 1..Len(dataLines) |->
            SubSeq(dataLines[i], Len(DataPrefix) + 1, Len(dataLines[i]))]

\* The texts of the data lines of a body that are JSON documents with text.
WellFormedTexts(body) ==
    LET carrying == SelectSeq(DataOf(body),
                        LAMBDA data : /\ ~JSONparseData(data).thrown
                                      /\ FirstText(PathsOf(data)) # <<>>)
    IN  [i \in 1..Len(carrying) |-> FirstText(PathsOf(carrying[i]))]

\* A data line that is not JSON has been handed to JSON.parse.
MalformedSeen == \E i \in 1..Len(stream.parsed) : stream.parsed[i].thrown

\* C35: a data line that is not JSON adds no text and ends nothing: onError
\* is called and handleStream throws only when a read fails, and at the end
\* of the stream onChunk has been called with the text of every well-formed
\* data line of the body, those before and those after the malformed line.
C35_MalformedLineIsolated ==
    /\ [](\A i \in 1..Len(stream.parsed) :
            stream.parsed[i].thrown => stream.parsed[i].content = <<>>)
    /\ [](stream.pc = "returned" =>
            /\ ArgsOf("onError") = <<>>
            /\ ArgsOf("onChunk") = WellFormedTexts(stream.body))
    /\ [][MalformedSeen' /\ ~MalformedSeen =>
              /\ stream'.pc \in {"reading", "returned"}
              /\ ArgsOf("onError")' = <<>>]_vars

\* The stream with a malformed line between two documents has been read to
\* its end: the texts of both documents were taken.
C35_Witness ==
    /\ stream.pc = "returned"
    /\ Len(stream.parsed) = 3
    /\ ~stream.parsed[1].thrown
    /\ stream.parsed[2].thrown
    /\ ~stream.parsed[3].thrown
    /\ stream.ret = <<"a", "c">>

\* The locals of handleStream after one read that gave the first n bytes of
\* the body.
ReadAtOnce(body, n) == readValue(Handling(body), SubSeq(body, 1, n))

\* What handleStream returns when the whole body arrives as one chunk.
ReadWhole(body) == readDone(ReadAtOnce(body, Len(body))).ret

\* C36: the text handleStream gives does not depend on where the body is cut
\* into chunks.  However the reads cut the bytes read so far, inside lines
\* and inside characters too, the text taken and the remainder carried in
\* the buffer are those that the same bytes give as one chunk, and the text
\* returned and handed to onComplete is the text the body gives as one chunk.
C36_ChunkBoundariesIrrelevant ==
    /\ stream.pc = "reading" =>
          /\ stream.resultText = ReadAtOnce(stream.body, stream.read).resultText
          /\ stream.buffer = ReadAtOnce(stream.body, stream.read).buffer
          /\ stream.held = ReadAtOnce(stream.body, stream.read).held
    /\ stream.pc = "returned" =>
          /\ stream.ret = ReadWhole(stream.body)
          /\ ArgsOf("onComplete") = <<ReadWhole(stream.body)>>

\* A read has ended inside a line and inside a character, after the text of
\* a line was taken: the line cut is in the buffer and the byte held back.
C36_Witness ==
    /\ stream.pc = "reading"
    /\ stream.read < Len(stream.body)
    /\ stream.held = <<LeadByte>>
    /\ startsWith(stream.buffer, DataPrefix)
    /\ stream.resultText = <<"a">>

\* The same body read to its end: the line and the character that were cut
\* gave their text.
C36_CutLineRead ==
    /\ stream.pc = "returned"
    /\ stream.ret = <<"a", EAcute>>
    /\ Len(stream.parsed) = 3

\* The data of the data lines of a body that come before its first
\* 'data: [DONE]' line: all of them when there is none.
DataBeforeDone(body) ==
    LET data == DataOf(body)
        done == {i \in 1..Len(data) : data[i] = DoneData}
        first == IF done = {} THEN Len(data) + 1
                 ELSE CHOOSE i \in done : \A j \in done : i <= j
    IN  SubSeq(data, 1, first - 1)

\* The body has a data line after a 'data: [DONE]' line.
DataAfterDone(body) == Len(DataBeforeDone(body)) + 1 < Len(DataOf(body))

\* C37: once a 'data: [DONE]' line has been seen no later data line adds
\* text: at the end of the stream the data handed to JSON.parse is the data
\* of the lines before the first 'data: [DONE]' line, and nothing else.
C37_StopsAtSentinel ==
    stream.pc = "returned" =>
        [i \in 1..Len(stream.parsed) |-> stream.parsed[i].data]
            = DataBeforeDone(stream.body)

\* C37, what holds: the 'data: [DONE]' line is skipped, it is not handed to
\* JSON.parse and adds no text, and the lines after it are processed like
\* the lines before it.
C37_SentinelSkipped ==
    stream.pc = "returned" =>
        [i \in 1..Len(stream.parsed) |-> stream.parsed[i].data]
            = SelectSeq(DataOf(stream.body), LAMBDA data : data # DoneData)

\* The stream with a document after the 'data: [DONE]' line has been read:
\* the text of that document is in the text returned.
C37_TextAfterSentinel ==
    /\ stream.pc = "returned"
    /\ DataAfterDone(stream.body)
    /\ stream.ret = <<"a", "c">>

\* texts.join('')
RECURSIVE Concatenation(_)
Concatenation(texts) ==
    IF texts = <<>> THEN <<>> ELSE Head(texts) \o Concatenation(Tail(texts))

\* The callbacks called so far, by name and in order.
CallbackNames == [i \in 1..Len(stream.callbacks) |-> stream.callbacks[i].fn]

\* Every callback called before the last one was onChunk.
OnlyChunksBeforeLast ==
    \A i \in 1..(Len(stream.callbacks) - 1) : CallbackNames[i] = "onChunk"

\* C38: while the stream is read only onChunk is called.  When handleStream
\* returns, onComplete has been called once, after every call of onChunk,
\* with the concatenation of the arguments of onChunk in order, which is the
\* text returned, and onError has not been called.  When a read fails,
\* onError has been called once with the error, onComplete has not been
\* called, and the error is thrown again.
C38_CompleteOnceAfterChunks ==
    /\ stream.pc = "reading" =>
          \A i \in 1..Len(stream.callbacks) : CallbackNames[i] = "onChunk"
    /\ stream.pc = "returned" =>
          /\ stream.callbacks # <<>>
          /\ OnlyChunksBeforeLast
          /\ stream.callbacks[Len(stream.callbacks)] =
                [fn |-> "onComplete", arg |-> Concatenation(ArgsOf("onChunk"))]
          /\ stream.ret = Concatenation(ArgsOf("onChunk"))
    /\ stream.pc = "threw" =>
          /\ stream.callbacks # <<>>
          /\ OnlyChunksBeforeLast
          /\ stream.callbacks[Len(stream.callbacks)] =
                [fn |-> "onError", arg |-> ReadError]
          /\ stream.ret = ReadError

\* A stream whose last line has no newline has been read to its end:
\* onChunk was called three times, the third time for the remainder, and
\* onComplete after it with the three texts.
C38_Witness ==
    /\ stream.pc = "returned"
    /\ CallbackNames = <<"onChunk", "onChunk", "onChunk", "onComplete">>
    /\ stream.buffer # <<>>
    /\ ArgsOf("onComplete") = << <<"b", "a", "c">> >>

\* A read failed after two chunks were taken: onError was called and
\* onComplete was not.
C38_ReadFailed ==
    /\ stream.pc = "threw"
    /\ CallbackNames = <<"onChunk", "onChunk", "onError">>

\* The requests go round the endpoints in order, the primary first, for at
\* most retryAttempts rounds, with one wait after each round that failed.
RoundsInOrder ==
    /\ Len(search.requests) <= retryAttempts * Len(endpoints)
    /\ \A k \in 1..Len(search.requests) :
          search.requests[k] = endpoints[((k - 1) % Len(endpoints)) + 1]
    /\ Len(search.delays) = (Len(search.logged) \div Len(endpoints))
                                - (IF search.pc = "waiting" THEN 1 ELSE 0)

\* The k-th request was answered and its answer is one of the outcomes.
AnsweredWith(k, outcomes) ==
    k <= Len(search.responses) /\ search.responses[k] \in outcomes

\* After the last round the message of the last error is shown, once, and
\* the error is thrown; nothing is shown otherwise.
LastErrorSurfaced ==
    IF search.pc = "threw" /\ search.requests # <<>>
    THEN /\ Len(search.requests) = retryAttempts * Len(endpoints)
         /\ Len(search.logged) = Len(search.requests)
         /\ search.lastError = search.logged[Len(search.logged)]
         /\ search.lastError.attempt = retryAttempts
         /\ search.lastError.endpoint = Len(endpoints)
         /\ search.shown = <<search.lastError.message>>
    ELSE search.shown = <<>>

\* C39: search makes at most 3 rounds of 3 requests, in each round to the
\* primary endpoint and then to the fallbacks in order; every request but
\* the last one met a network error or a status that is not a success, so
\* that search returns at the first response with a success status and asks
\* nothing more; after the last failed round the last error is shown and
\* thrown.
C39_RetriesUntilSuccessStatus ==
    /\ RoundsInOrder
    /\ \A k \in 1..(Len(search.requests) - 1) :
          AnsweredWith(k, {"status", "networkError"})
    /\ search.pc = "returned" =>
          AnsweredWith(Len(search.requests), {"ok", "notJson"})
    /\ search.pc \in {"waiting", "threw"} =>
          \A k \in 1..Len(search.requests) :
              AnsweredWith(k, {"status", "networkError"})
    /\ LastErrorSurfaced

\* The outcomes that send search on to the next request: a network error, a
\* status that is not a success and, when the body is read as JSON (stream:
\* false), a body that is not JSON.
Failures ==
    IF search.streamed THEN {"status", "networkError"}
    ELSE {"status", "networkError", "notJson"}

\* C39, amended: as above, where a request has also failed when search was
\* asked for the whole response (stream: false) and the body of a response
\* with a success status is not JSON; search returns at the first response
\* that is not a failure in this sense.
C39_RetriesUntilUsableResponse ==
    /\ RoundsInOrder
    /\ \A k \in 1..(Len(search.requests) - 1) : AnsweredWith(k, Failures)
    /\ search.pc = "returned" =>
          AnsweredWith(Len(search.requests), Outcomes \ Failures)
    /\ search.pc \in {"waiting", "threw"} =>
          \A k \in 1..Len(search.requests) : AnsweredWith(k, Failures)
    /\ LastErrorSurfaced

\* The first round failed at every endpoint and the fallback answered in the
\* second round: five requests, the last one returned.
C39_Witness ==
    /\ search.pc = "returned"
    /\ Len(search.requests) = Len(endpoints) + 2
    /\ search.delays = <<1000>>
    /\ search.streamed

\* Every request of the three rounds failed: the last error was shown and
\* thrown.
C39_AllRoundsFailed ==
    /\ search.pc = "threw"
    /\ Len(search.requests) = retryAttempts * Len(endpoints)
    /\ search.shown # <<>>

\* A response with a success status was followed by another request.
C39_RequestAfterSuccessStatus ==
    /\ ~search.streamed
    /\ Len(search.requests) > 1
    /\ search.responses[1] = "notJson"


====
